---- MODULE Spec2Model ----
(***************************************************************************)
(* Endpoint discovery (EDS) of the pilot discovery server:                 *)
(* pilot/pkg/proxy/envoy/v2/eds.go.                                        *)
(*                                                                         *)
(* The module models the process-wide cluster registry (edsClusters and    *)
(* its RWMutex), the per-cluster EdsCluster objects (client map, load      *)
(* assignment pointer, mutex), the endpoint shard store of the discovery   *)
(* server, the assignment builders, the per-connection push and the        *)
(* weight normalizer.  Goroutines are threads with a program counter;      *)
(* the acquisitions of edsClusterMutex and of EdsCluster.mutex are steps   *)
(* of their own.                                                           *)
(***************************************************************************)
EXTENDS Integers, Sequences, FiniteSets, TLC

\* ------------------------------------------------------------------ bounds
NumThreads == 2
MaxEntries == 3
MaxGroups == 3
MaxConnections == 4

\* ClusterLoadAssignment objects: one per entry and one per goroutine can be
\* pointed to at a time.
ClaIds == 1..(MaxEntries + NumThreads)

Threads == 1..NumThreads
EntryIds == 1..MaxEntries

\* nil pointers
NIL == 0
NilConn == "nil"
NONE == 0

\* ------------------------------------------------------- input universes
ClusterNames == {"outbound|80||svc1", "outbound|80|v2|svc1", "outbound|80||svc2"}
\* The clusters of host svc1.
Svc1Clusters == {"outbound|80||svc1", "outbound|80|v2|svc1"}
Nodes == {"n1", "n2"}
Conns == {"x1", "x2"}
Services == {"svc1", "svc2"}
ShardIds == {"r1", "r2"}

\* model.IstioEndpoint: the fields eds.go reads.  Labels is a map, here a
\* function on the keys present.
AZLabel == "zone"
Ep(addr, port, labels, sa) ==
    [Address |-> addr, ServicePortName |-> port, Labels |-> labels, ServiceAccount |-> sa]

\* Endpoint lists the registries report in the shard-store runs: endpoints
\* without a service account and with one of two accounts.
NoAccountEp == Ep("10.0.0.1", "http", [version |-> "v1"], "")
AccountAEp == Ep("10.0.0.2", "http", [version |-> "v1"], "a")
AccountBEp == Ep("10.0.0.3", "http", [version |-> "v1"], "b")
ShardInputs == { << >>, << AccountAEp >>, << NoAccountEp, AccountBEp >> }

VARIABLES
    edsClusters,      \* cluster name -> entry id, NIL when the key is absent
    EdsClients,       \* entry id -> (node -> connection, NilConn when absent)
    entryName,        \* entry id -> name it was created under ("" = not allocated)
    edsClusterMutex,  \* [writer |-> thread or NONE, readers |-> set of threads]
    mutex,            \* entry id -> thread holding EdsCluster.mutex, or NONE
    pc,               \* thread -> position in the running call
    loc,              \* thread -> arguments and locals of the running call
    last,             \* sequential runs: the call last started and the state it started in
    EndpointShardsByService, \* service -> [Shards, ServiceAccounts]; the domain is the set of keys
    edsUpdates,       \* keys of s.edsUpdates: services updated since the last push
    configUpdate,     \* the ConfigUpdate(full) calls of the latest handler step
    ev,               \* the latest shard-store operation and what it found
    sweep,            \* the running updateServiceShards call
    normIn,           \* normalizeLoadBalancingWeight: the argument
    normOut,          \* normalizeLoadBalancingWeight: the result
    normDone,         \* normalizeLoadBalancingWeight has returned
    ServicePort2Name, \* push context: hostname -> PortList; the domain is the set of keys
    hasFilters,       \* len(s.endpointsFilterFuncs) > 0
    LoadAssignment,   \* entry id -> id of the ClusterLoadAssignment it points to, or NIL
    NonEmptyTime,     \* entry id -> NonEmptyTime is set (not the zero time)
    claEndpoints,     \* ClusterLoadAssignment id -> its Endpoints (locality groups)
    claInstalled,     \* ClusterLoadAssignment id -> its Endpoints when a build installed it
    WorkloadsByID,    \* s.WorkloadsByID: workload id -> Workload; the domain is the set of keys
    wl,               \* the latest WorkloadUpdate call and WorkloadsByID before it
    svcCall,          \* recorded runs: the latest SvcUpdate call and ServicePort2Name before it
    connectionNumber, \* the global counter of connectionID
    cids              \* the connectionID calls that have returned, in order of return

asgVars == <<LoadAssignment, NonEmptyTime, claEndpoints, claInstalled>>
cfgVars == <<ServicePort2Name, hasFilters>>
wlVars == <<WorkloadsByID, wl>>
cidVars == <<connectionNumber, cids>>
srvVars == <<wlVars, svcCall, cidVars>>
otherVars == <<EndpointShardsByService, edsUpdates, configUpdate, ev, sweep, normIn, normOut, normDone,
               asgVars, cfgVars, srvVars>>
regVars == <<edsClusters, EdsClients, entryName, edsClusterMutex, mutex, pc, loc>>
storeVars == <<EndpointShardsByService, edsUpdates, configUpdate, ev, sweep>>
normVars == <<normIn, normOut, normDone>>
vars == <<regVars, last, storeVars, normVars, asgVars, cfgVars, srvVars>>

NoClients == [n \in Nodes |-> NilConn]
NoLoc == [name |-> "", node |-> "", conn |-> NilConn, c |-> NIL,
          upd |-> {}, cMap |-> << >>, locEps |-> << >>, path |-> "", seen |-> << >>,
          svcPort |-> [Port |-> 0, Name |-> ""], ret |-> "", filter |-> FALSE, i |-> 0, l |-> NIL, eps |-> << >>, res |-> << >>,
          failed |-> {}, instances |-> << >>,
          inc |-> FALSE, snap |-> {}, ran |-> {}, kept |-> {}, old |-> {},
          id |-> 0, floor |-> 0]
NoCall == [op |-> "none", name |-> "", node |-> "", conn |-> NilConn,
           reg |-> [n \in ClusterNames |-> NIL],
           clients |-> [e \in EntryIds |-> NoClients]]

NoEvent == [op |-> "none", shard |-> "", svc |-> "", found |-> FALSE, accounts |-> {}, carried |-> {},
            entries |-> << >>, repeat |-> FALSE]
NoWorkloadCall == [op |-> "none", id |-> "", labels |-> [isNil |-> TRUE, m |-> << >>],
                   annotations |-> << >>, before |-> << >>]
NoSvcCall == [op |-> "none", cluster |-> "", hostname |-> "", ports |-> << >>, before |-> << >>]
NoSweep == [pc |-> "idle", reg |-> 0, svc |-> 0, svc2account |-> << >>, returned |-> << >>]

\* len(c.EdsClients)
NumClients(e) == Cardinality({n \in Nodes : EdsClients[e][n] # NilConn})

Allocated == {e \in EntryIds : entryName[e] # ""}
FreeEntries == EntryIds \ Allocated
NewEntry == CHOOSE e \in FreeEntries : \A f \in FreeEntries : e <= f

\* ---------------------------------------------------- edsClusterMutex
CanLock == edsClusterMutex.writer = NONE /\ edsClusterMutex.readers = {}
CanRLock == edsClusterMutex.writer = NONE
Locked(t) == [edsClusterMutex EXCEPT !.writer = t]
Unlocked == [edsClusterMutex EXCEPT !.writer = NONE]
RLocked(t) == [edsClusterMutex EXCEPT !.readers = @ \cup {t}]
RUnlocked(t) == [edsClusterMutex EXCEPT !.readers = @ \ {t}]

\* The registry before any connection subscribed.
NoSubscription ==
    /\ edsClusters = [n \in ClusterNames |-> NIL]
    /\ EdsClients = [e \in EntryIds |-> NoClients]
    /\ entryName = [e \in EntryIds |-> ""]

\* The registry after addEdsCon(name, "n1", x1) on the empty registry.
SubscribedTo(name) ==
    /\ edsClusters = [n \in ClusterNames |-> IF n = name THEN 1 ELSE NIL]
    /\ EdsClients = [e \in EntryIds |->
                       IF e = 1 THEN [n \in Nodes |-> IF n = "n1" THEN "x1" ELSE NilConn]
                       ELSE NoClients]
    /\ entryName = [e \in EntryIds |-> IF e = 1 THEN name ELSE ""]

InitOthers ==
    /\ edsClusterMutex = [writer |-> NONE, readers |-> {}]
    /\ mutex = [e \in EntryIds |-> NONE]
    /\ pc = [t \in Threads |-> "idle"]
    /\ loc = [t \in Threads |-> NoLoc]
    /\ last = NoCall
    /\ EndpointShardsByService = << >>
    /\ edsUpdates = {}
    /\ configUpdate = << >>
    /\ ev = NoEvent
    /\ sweep = NoSweep
    /\ ServicePort2Name = << >>
    /\ LoadAssignment = [e \in EntryIds |-> NIL]
    /\ NonEmptyTime = [e \in EntryIds |-> FALSE]
    /\ claEndpoints = [i \in ClaIds |-> << >>]
    /\ claInstalled = [i \in ClaIds |-> << >>]
    /\ WorkloadsByID = << >>
    /\ wl = NoWorkloadCall
    /\ svcCall = NoSvcCall
    /\ connectionNumber = 0
    /\ cids = << >>

InitRest == NoSubscription /\ InitOthers

InitIdle ==
    /\ InitRest
    /\ normIn = << >>
    /\ normOut = << >>
    /\ normDone = FALSE

Init == InitIdle /\ hasFilters = FALSE

\* The record of a call entered now: its arguments, the registry and the
\* client maps as they are.
Call(op, name, node, conn) ==
    [op |-> op, name |-> name, node |-> node, conn |-> conn,
     reg |-> edsClusters, clients |-> EdsClients]

\* ------------------------------------------------------------ addEdsCon
\* A goroutine enters addEdsCon(clusterName, node, connection).
CallAddEdsCon(t, N, h) ==
    /\ pc[t] = "idle"
    /\ \E name \in N, node \in Nodes, conn \in Conns :
        /\ loc' = [loc EXCEPT ![t] = [NoLoc EXCEPT !.name = name, !.node = node, !.conn = conn]]
        /\ last' = IF h THEN Call("add", name, node, conn) ELSE last
    /\ pc' = [pc EXCEPT ![t] = "goa_lock"]
    /\ UNCHANGED <<edsClusters, EdsClients, entryName, edsClusterMutex, mutex, otherVars>>

\* getOrAddEdsCluster: edsClusterMutex.Lock().  The entry heap is bounded:
\* a call that would allocate waits until an id is free.
GetOrAddLock(t) ==
    /\ pc[t] = "goa_lock"
    /\ CanLock
    /\ edsClusters[loc[t].name] # NIL \/ FreeEntries # {}
    /\ edsClusterMutex' = Locked(t)
    /\ pc' = [pc EXCEPT ![t] = "goa_body"]
    /\ UNCHANGED <<edsClusters, EdsClients, entryName, mutex, loc, last, otherVars>>

\* getOrAddEdsCluster: look the entry up, create it when missing, unlock, return it.
GetOrAddBody(t) ==
    /\ pc[t] = "goa_body"
    /\ LET name == loc[t].name
           c == edsClusters[name]
       IN IF c = NIL
          THEN /\ edsClusters' = [edsClusters EXCEPT ![name] = NewEntry]
               /\ entryName' = [entryName EXCEPT ![NewEntry] = name]
               /\ EdsClients' = [EdsClients EXCEPT ![NewEntry] = NoClients]
               /\ loc' = [loc EXCEPT ![t].c = NewEntry]
          ELSE /\ loc' = [loc EXCEPT ![t].c = c]
               /\ UNCHANGED <<edsClusters, entryName, EdsClients, last, otherVars>>
    /\ edsClusterMutex' = Unlocked
    /\ pc' = [pc EXCEPT ![t] = "add_lock"]
    /\ UNCHANGED <<mutex, last, otherVars>>

\* addEdsCon: c.mutex.Lock()
AddLock(t) ==
    /\ pc[t] = "add_lock"
    /\ mutex[loc[t].c] = NONE
    /\ mutex' = [mutex EXCEPT ![loc[t].c] = t]
    /\ pc' = [pc EXCEPT ![t] = "add_set"]
    /\ UNCHANGED <<edsClusters, EdsClients, entryName, edsClusterMutex, loc, last, otherVars>>

\* addEdsCon: c.EdsClients[node] = connection; c.mutex.Unlock(); return
AddSet(t) ==
    /\ pc[t] = "add_set"
    /\ EdsClients' = [EdsClients EXCEPT ![loc[t].c][loc[t].node] = loc[t].conn]
    /\ mutex' = [mutex EXCEPT ![loc[t].c] = NONE]
    /\ pc' = [pc EXCEPT ![t] = "idle"]
    /\ loc' = [loc EXCEPT ![t] = NoLoc]
    /\ UNCHANGED <<edsClusters, entryName, edsClusterMutex, last, otherVars>>

addEdsCon(t, N, h) ==
    \/ CallAddEdsCon(t, N, h)
    \/ GetOrAddLock(t)
    \/ GetOrAddBody(t)
    \/ AddLock(t)
    \/ AddSet(t)

\* --------------------------------------------------------- removeEdsCon
\* A goroutine enters removeEdsCon(clusterName, node, connection).
CallRemoveEdsCon(t, N, h) ==
    /\ pc[t] = "idle"
    /\ \E name \in N, node \in Nodes, conn \in Conns :
        /\ loc' = [loc EXCEPT ![t] = [NoLoc EXCEPT !.name = name, !.node = node, !.conn = conn]]
        /\ last' = IF h THEN Call("remove", name, node, conn) ELSE last
    /\ pc' = [pc EXCEPT ![t] = "rm_rlock"]
    /\ UNCHANGED <<edsClusters, EdsClients, entryName, edsClusterMutex, mutex, otherVars>>

\* getEdsCluster: edsClusterMutex.RLock()
RemoveRLock(t) ==
    /\ pc[t] = "rm_rlock"
    /\ CanRLock
    /\ edsClusterMutex' = RLocked(t)
    /\ pc' = [pc EXCEPT ![t] = "rm_get"]
    /\ UNCHANGED <<edsClusters, EdsClients, entryName, mutex, loc, last, otherVars>>

\* getEdsCluster, between RLock and RUnlock: edsClusters[clusterName]
getEdsCluster(clusterName) == edsClusters[clusterName]

\* getEdsCluster returns (RUnlock); removeEdsCon returns when the entry is missing.
RemoveGet(t) ==
    /\ pc[t] = "rm_get"
    /\ edsClusterMutex' = RUnlocked(t)
    /\ LET c == getEdsCluster(loc[t].name)
       IN IF c = NIL
          THEN /\ pc' = [pc EXCEPT ![t] = "idle"]
               /\ loc' = [loc EXCEPT ![t] = NoLoc]
          ELSE /\ pc' = [pc EXCEPT ![t] = "rm_lock"]
               /\ loc' = [loc EXCEPT ![t].c = c]
    /\ UNCHANGED <<edsClusters, EdsClients, entryName, mutex, last, otherVars>>

\* removeEdsCon: c.mutex.Lock()
RemoveLock(t) ==
    /\ pc[t] = "rm_lock"
    /\ mutex[loc[t].c] = NONE
    /\ mutex' = [mutex EXCEPT ![loc[t].c] = t]
    /\ pc' = [pc EXCEPT ![t] = "rm_body"]
    /\ UNCHANGED <<edsClusters, EdsClients, entryName, edsClusterMutex, loc, last, otherVars>>

\* (mutation of MustDelete: the handle is not compared)
MustDeleteAnyHandle(oldcon, connection) == oldcon # NilConn

\* The test of removeEdsCon on the stored handle: delete only when
\* c.EdsClients[node] is the connection being closed.
MustDelete(oldcon, connection) == oldcon # NilConn /\ oldcon = connection

\* (mutation of LastClientLeft: the unwatched entry is never collected)
LastClientNeverLeft(c, node) == FALSE

\* len(c.EdsClients) == 0 after delete(c.EdsClients, node)
LastClientLeft(c, node) == \A n \in Nodes \ {node} : EdsClients[c][n] = NilConn

\* removeEdsCon under c.mutex: compare the stored handle, delete the client,
\* and go on to the registry when the client map became empty.
RemoveBody(t) ==
    /\ pc[t] = "rm_body"
    /\ LET c == loc[t].c
           node == loc[t].node
           oldcon == EdsClients[c][node]
       IN IF ~MustDelete(oldcon, loc[t].conn)
          THEN /\ mutex' = [mutex EXCEPT ![c] = NONE]
               /\ pc' = [pc EXCEPT ![t] = "idle"]
               /\ loc' = [loc EXCEPT ![t] = NoLoc]
               /\ UNCHANGED EdsClients
          ELSE /\ EdsClients' = [EdsClients EXCEPT ![c][node] = NilConn]
               /\ IF LastClientLeft(c, node)
                  THEN /\ pc' = [pc EXCEPT ![t] = "rm_reglock"]
                       /\ UNCHANGED <<mutex, loc, last, otherVars>>
                  ELSE /\ mutex' = [mutex EXCEPT ![c] = NONE]
                       /\ pc' = [pc EXCEPT ![t] = "idle"]
                       /\ loc' = [loc EXCEPT ![t] = NoLoc]
    /\ UNCHANGED <<edsClusters, entryName, edsClusterMutex, last, otherVars>>

\* removeEdsCon: edsClusterMutex.Lock(), still holding c.mutex
RemoveRegLock(t) ==
    /\ pc[t] = "rm_reglock"
    /\ CanLock
    /\ edsClusterMutex' = Locked(t)
    /\ pc' = [pc EXCEPT ![t] = "rm_delete"]
    /\ UNCHANGED <<edsClusters, EdsClients, entryName, mutex, loc, last, otherVars>>

\* removeEdsCon: delete(edsClusters, clusterName); the deferred unlocks run.
RemoveDelete(t) ==
    /\ pc[t] = "rm_delete"
    /\ edsClusters' = [edsClusters EXCEPT ![loc[t].name] = NIL]
    /\ edsClusterMutex' = Unlocked
    /\ mutex' = [mutex EXCEPT ![loc[t].c] = NONE]
    /\ pc' = [pc EXCEPT ![t] = "idle"]
    /\ loc' = [loc EXCEPT ![t] = NoLoc]
    /\ UNCHANGED <<EdsClients, entryName, last, otherVars>>

removeEdsCon(t, N, h) ==
    \/ CallRemoveEdsCon(t, N, h)
    \/ RemoveRLock(t)
    \/ RemoveGet(t)
    \/ RemoveLock(t)
    \/ RemoveBody(t)
    \/ RemoveRegLock(t)
    \/ RemoveDelete(t)

\* ================================================================ shard store
\* Go maps as functions: m[k] = v, the keys being the domain.
Put(m, k, v) == [x \in DOMAIN m \cup {k} |-> IF x = k THEN v ELSE m[x]]

\* ep, f := s.EndpointShardsByService[serviceName], and the record edsUpdate
\* creates when f is false.
Found(serviceName) == serviceName \in DOMAIN EndpointShardsByService
NewShards == [Shards |-> << >>, ServiceAccounts |-> {}]
ShardsOf(serviceName) ==
    IF Found(serviceName) THEN EndpointShardsByService[serviceName] ELSE NewShards

\* The non-empty service accounts of a list of endpoints, and of all the
\* shards of a service.
AccountsOf(entries) == {entries[i].ServiceAccount : i \in 1..Len(entries)} \ {""}
AccountsInShards(serviceName) ==
    LET sh == ShardsOf(serviceName).Shards
    IN UNION {AccountsOf(sh[x]) : x \in DOMAIN sh}

\* (mutation of RequireFull: an unseen service account does not ask for a full push)
RequireFullNewServiceOnly(serviceName, entries, internal) ==
    ~Found(serviceName) /\ ~internal

\* edsUpdate: requireFull after the loop over the entries.
RequireFull(serviceName, entries, internal) ==
    \/ ~Found(serviceName) /\ ~internal
    \/ \E i \in 1..Len(entries) :
          /\ entries[i].ServiceAccount # ""
          /\ entries[i].ServiceAccount \notin ShardsOf(serviceName).ServiceAccounts
          /\ ~internal

\* The call has the arguments of the call before it.
SameCallAgain(shard, serviceName, entries, internal) ==
    /\ ev.op = (IF internal THEN "internal" ELSE "EDSUpdate")
    /\ ev.shard = shard
    /\ ev.svc = serviceName
    /\ ev.entries = entries

\* (mutation of edsUpdate: the entries are appended to the shard)
edsUpdateAppends(shard, serviceName, entries, internal) ==
    LET ep == ShardsOf(serviceName)
        old == IF shard \in DOMAIN ep.Shards THEN ep.Shards[shard] ELSE << >>
    IN /\ EndpointShardsByService' =
            Put(EndpointShardsByService, serviceName,
                [ep EXCEPT !.Shards = Put(ep.Shards, shard, old \o entries)])
       /\ edsUpdates' = edsUpdates \cup {serviceName}
       /\ configUpdate' = << RequireFull(serviceName, entries, internal) >>
       /\ ev' = [op |-> IF internal THEN "internal" ELSE "EDSUpdate",
                 shard |-> shard, svc |-> serviceName,
                 found |-> Found(serviceName), accounts |-> ep.ServiceAccounts,
                 carried |-> AccountsInShards(serviceName),
                 entries |-> entries, repeat |-> SameCallAgain(shard, serviceName, entries, internal)]

\* (mutation of edsUpdate: the service is left with the one shard reported)
edsUpdateDropsShards(shard, serviceName, entries, internal) ==
    LET ep == ShardsOf(serviceName)
    IN /\ EndpointShardsByService' =
            Put(EndpointShardsByService, serviceName,
                [ep EXCEPT !.Shards = Put(<< >>, shard, entries)])
       /\ edsUpdates' = edsUpdates \cup {serviceName}
       /\ configUpdate' = << RequireFull(serviceName, entries, internal) >>
       /\ ev' = [op |-> IF internal THEN "internal" ELSE "EDSUpdate",
                 shard |-> shard, svc |-> serviceName,
                 found |-> Found(serviceName), accounts |-> ep.ServiceAccounts,
                 carried |-> AccountsInShards(serviceName),
                 entries |-> entries, repeat |-> SameCallAgain(shard, serviceName, entries, internal)]

\* edsUpdate(shard, serviceName, entries, internal), all of it under s.mutex:
\* the shard is replaced, the service is marked updated, a push is requested.
edsUpdate(shard, serviceName, entries, internal) ==
    LET ep == ShardsOf(serviceName)
    IN /\ EndpointShardsByService' =
            Put(EndpointShardsByService, serviceName,
                [ep EXCEPT !.Shards = Put(ep.Shards, shard, entries)])
       /\ edsUpdates' = edsUpdates \cup {serviceName}
       /\ configUpdate' = << RequireFull(serviceName, entries, internal) >>
       /\ ev' = [op |-> IF internal THEN "internal" ELSE "EDSUpdate",
                 shard |-> shard, svc |-> serviceName,
                 found |-> Found(serviceName), accounts |-> ep.ServiceAccounts,
                 carried |-> AccountsInShards(serviceName),
                 entries |-> entries, repeat |-> SameCallAgain(shard, serviceName, entries, internal)]

\* EDSUpdate(shard, serviceName, entries): a registry pushes its slice.
EDSUpdate(S, L) ==
    /\ \E shard \in ShardIds, serviceName \in S, entries \in L :
          edsUpdate(shard, serviceName, entries, FALSE)
    /\ UNCHANGED <<sweep, regVars, last, normVars, asgVars, cfgVars, srvVars>>

\* ------------------------------------------------- updateServiceShards
\* The registries of the aggregate controller (by ClusterID) and push.Services.
Registries == << "r1" >>
Port(name, port, protocol) == [Name |-> name, Port |-> port, Protocol |-> protocol]
PushServices ==
    << [Hostname |-> "svc1", Ports |-> << Port("http", 80, "HTTP"), Port("dns", 53, "UDP") >>],
       [Hostname |-> "svc2", Ports |-> << Port("http", 80, "HTTP") >>] >>

\* The ports of a service the sweep queries (UDP is skipped), in order.
QueriedPorts(svc) ==
    LET P == svc.Ports
        F[i \in 0..Len(P)] ==
            IF i = 0 THEN << >>
            ELSE IF P[i].Protocol = "UDP" THEN F[i-1] ELSE Append(F[i-1], P[i])
    IN F[Len(P)]

\* entries of one service: per queried port, the instances returned for it,
\* each with ServicePortName set to the port's name.
SweepEntries(ports, resp) ==
    LET F[i \in 0..Len(ports)] ==
            IF i = 0 THEN << >>
            ELSE F[i-1] \o [j \in 1..Len(resp[i]) |->
                               [resp[i][j] EXCEPT !.ServicePortName = ports[i].Name]]
    IN F[Len(ports)]

\* svc2account after the instances of one service: only a non-empty service
\* account creates or extends the service's key.
Svc2Account(svc2account, hostname, entries) ==
    LET seen == AccountsOf(entries)
    IN IF seen = {} THEN svc2account
       ELSE Put(svc2account, hostname,
                (IF hostname \in DOMAIN svc2account THEN svc2account[hostname] ELSE {})
                    \cup seen)

\* The service accounts of the instances the registries have returned so
\* far in this sweep, per service queried (the empty set for a service
\* none of whose instances carried one).
Returned(returned, hostname, entries) ==
    Put(returned, hostname,
        (IF hostname \in DOMAIN returned THEN returned[hostname] ELSE {}) \cup AccountsOf(entries))

\* updateServiceShards is entered.
SweepStart ==
    /\ sweep.pc = "idle"
    /\ sweep' = [pc |-> "loop", reg |-> 1, svc |-> 1, svc2account |-> << >>, returned |-> << >>]
    /\ UNCHANGED <<EndpointShardsByService, edsUpdates, configUpdate, ev, regVars, last, normVars, asgVars, cfgVars, srvVars>>

SweepAdvance(svc2account) ==
    IF sweep.svc < Len(PushServices)
    THEN [sweep EXCEPT !.svc = @ + 1, !.svc2account = svc2account]
    ELSE IF sweep.reg < Len(Registries)
    THEN [sweep EXCEPT !.reg = @ + 1, !.svc = 1, !.svc2account = svc2account]
    ELSE [sweep EXCEPT !.pc = "accounts", !.svc2account = svc2account]

\* One service of one registry: InstancesByPort for every queried port
\* succeeds, then edsUpdate(registry.ClusterID, hostname, entries, true).
SweepService(L) ==
    /\ sweep.pc = "loop"
    /\ LET svc == PushServices[sweep.svc]
           ports == QueriedPorts(svc)
       IN \E resp \in [1..Len(ports) -> L] :
            LET entries == SweepEntries(ports, resp)
            IN /\ edsUpdate(Registries[sweep.reg], svc.Hostname, entries, TRUE)
               /\ sweep' = [SweepAdvance(Svc2Account(sweep.svc2account, svc.Hostname, entries))
                               EXCEPT !.returned = Returned(sweep.returned, svc.Hostname, entries)]
    /\ UNCHANGED <<regVars, last, normVars, asgVars, cfgVars, srvVars>>

\* InstancesByPort returns an error: updateServiceShards returns it.
SweepError ==
    /\ sweep.pc = "loop"
    /\ sweep' = NoSweep
    /\ UNCHANGED <<EndpointShardsByService, edsUpdates, configUpdate, ev, regVars, last, normVars, asgVars, cfgVars, srvVars>>

\* (mutation of SetServiceAccounts: the accounts seen are added, not set)
AddServiceAccounts(svc2account) ==
    [k \in DOMAIN EndpointShardsByService |->
        IF k \in DOMAIN svc2account
        THEN [EndpointShardsByService[k] EXCEPT !.ServiceAccounts = @ \cup svc2account[k]]
        ELSE EndpointShardsByService[k]]

\* for k, v := range svc2account { ep.ServiceAccounts = v }, under s.mutex
SetServiceAccounts(svc2account) ==
    [k \in DOMAIN EndpointShardsByService |->
        IF k \in DOMAIN svc2account
        THEN [EndpointShardsByService[k] EXCEPT !.ServiceAccounts = svc2account[k]]
        ELSE EndpointShardsByService[k]]

\* The end of the sweep: the service accounts seen replace the stored ones.
SweepAccounts ==
    /\ sweep.pc = "accounts"
    /\ EndpointShardsByService' = SetServiceAccounts(sweep.svc2account)
    /\ configUpdate' = << >>
    /\ ev' = [NoEvent EXCEPT !.op = "accounts"]
    /\ sweep' = NoSweep
    /\ UNCHANGED <<edsUpdates, regVars, last, normVars, asgVars, cfgVars, srvVars>>

updateServiceShards(L) ==
    \/ SweepStart
    \/ SweepService(L)
    \/ SweepError
    \/ SweepAccounts

\* ========================================================= weight normalizer
\* uint32 values.  A number is kept in two limbs, [hi, lo] standing for
\* hi * 2^16 + lo with lo < 2^16; a uint32 has hi < 2^16 as well, and
\* Wrap32 is the reduction modulo 2^32 of uint32 arithmetic.
B16 == 65536
maxLoadBalancingWeight == 128
Num(hi, lo) == [hi |-> hi, lo |-> lo]
Zero == Num(0, 0)
One == Num(0, 1)
Wrap32(a) == [a EXCEPT !.hi = @ % B16]
Plus(a, b) == Num(a.hi + b.hi + (a.lo + b.lo) \div B16, (a.lo + b.lo) % B16)
Times(a, k) == Num(a.hi * k + (a.lo * k) \div B16, (a.lo * k) % B16)
Less(a, b) == a.hi < b.hi \/ (a.hi = b.hi /\ a.lo < b.lo)
Minus(a, b) ==
    IF a.lo >= b.lo THEN Num(a.hi - b.hi, a.lo - b.lo)
    ELSE Num(a.hi - b.hi - 1, a.lo + B16 - b.lo)
Twice(a, bit) == Num(a.hi * 2 + (a.lo * 2 + bit) \div B16, (a.lo * 2 + bit) % B16)

Pow2(n) == 2^n
Bit(a, i) == IF i < 16 THEN (a.lo \div Pow2(i)) % 2 ELSE (a.hi \div Pow2(i - 16)) % 2

\* The element of a one-element set: The({ e(v) : v \in {a} }) is e(a)
\* with a computed once.
The(S) == CHOOSE v \in S : TRUE

\* Quotient and remainder of x by d # 0, one bit of x at a time (x < 2^40):
\* DivBit is the step for bit i, DivStep the steps for the bits i..0.
DivBit(x, d, i, acc) ==
    The({ IF Less(r, d)
          THEN [q |-> Twice(acc.q, 0), r |-> r]
          ELSE [q |-> Twice(acc.q, 1), r |-> Minus(r, d)] : r \in { Twice(acc.r, Bit(x, i)) } })
RECURSIVE DivStep(_, _, _, _)
DivStep(x, d, i, acc) ==
    IF i < 0 THEN acc
    ELSE The({ DivStep(a, b, j, next) :
                 a \in {x}, b \in {d}, j \in {i - 1}, next \in { DivBit(x, d, i, acc) } })
DivMod(x, d) == The({ DivStep(a, b, 39, [q |-> Zero, r |-> Zero]) : a \in {x}, b \in {d} })

\* math.Ceil(float64(x) / float64(d)) for integers x, d below 2^53: the
\* rounded quotient never reaches the next integer, so it is the exact ceiling.
CeilDiv(x, d) ==
    The({ IF qr.r = Zero THEN qr.q ELSE Plus(qr.q, One) : qr \in { DivMod(x, d) } })

\* endpoint.LocalityLbEndpoints: zone, the endpoints, the weight (uint32).
Group(zone, eps, w) == [Zone |-> zone, LbEndpoints |-> eps, LoadBalancingWeight |-> w]

\* totalLbEndpointsNum: the uint32 sum of the weights.
TotalWeight(endpoints) ==
    LET F[i \in 0..Len(endpoints)] ==
            IF i = 0 THEN Zero
            ELSE Wrap32(Plus(F[i-1], endpoints[i].LoadBalancingWeight))
    IN F[Len(endpoints)]

\* One group's weight: uint32(math.Ceil(float64(w * 128) / float64(total))),
\* the product being a uint32 product.
NormalizedWeight(w, total) ==
    CeilDiv(Wrap32(Times(w, maxLoadBalancingWeight)), total)

normalizeLoadBalancingWeight(endpoints) ==
    LET total == TotalWeight(endpoints)
    IN IF total = Zero THEN endpoints
       ELSE [i \in 1..Len(endpoints) |->
                [endpoints[i] EXCEPT
                    !.LoadBalancingWeight = NormalizedWeight(@, total)]]

\* Raw weights tried: 0, small counts, 2^25 and the largest uint32.
RawWeights == { Zero, One, Num(0, 2), Num(0, 3), Num(512, 0), Num(65535, 65535) }
NormInputs ==
    UNION { { [i \in 1..k |-> Group(ToString(i), << >>, w[i])] : w \in [1..k -> RawWeights] }
            : k \in 0..MaxGroups }

\* The normalizer applied to one list of locality groups.
Normalize ==
    /\ ~normDone
    /\ normOut' = normalizeLoadBalancingWeight(normIn)
    /\ normDone' = TRUE
    /\ UNCHANGED <<normIn, regVars, last, storeVars, asgVars, cfgVars, srvVars>>

\* ========================================================= WorkloadUpdate
\* The arguments of WorkloadUpdate(id, labels, annotations): labels is nil
\* or a map (m).
WorkloadIds == {"w1", "w2"}
NilLabels == [isNil |-> TRUE, m |-> << >>]
LabelMap(m) == [isNil |-> FALSE, m |-> m]
WorkloadLabels == { NilLabels, LabelMap([app |-> "a"]), LabelMap([app |-> "b"]),
                    LabelMap([app |-> "a", version |-> "v1"]) }
WorkloadAnnotations == { [note |-> "x"], [note |-> "y"] }

Remove(m, k) == [x \in DOMAIN m \ {k} |-> m[x]]

\* (mutation of LabelsChanged: every update of a known workload counts as
\* a label change)
LabelsAlwaysChanged(w, labels) == TRUE
\* !reflect.DeepEqual(w.Labels, labels), labels not nil.
LabelsChanged(w, labels) == w.Labels # labels.m

\* The whole handler, under s.mutex.
WorkloadUpdate ==
    /\ \E id \in WorkloadIds, labels \in WorkloadLabels, annotations \in WorkloadAnnotations :
         /\ wl' = [op |-> "workload", id |-> id, labels |-> labels, annotations |-> annotations,
                   before |-> WorkloadsByID]
         /\ IF labels.isNil
            THEN /\ WorkloadsByID' = Remove(WorkloadsByID, id)
                 /\ configUpdate' = << >>
            ELSE IF id \notin DOMAIN WorkloadsByID
            THEN /\ WorkloadsByID' = Put(WorkloadsByID, id,
                                         [Labels |-> labels.m, Annotations |-> annotations])
                 /\ configUpdate' = << >>
            ELSE IF ~LabelsChanged(WorkloadsByID[id], labels)
            THEN /\ WorkloadsByID' = WorkloadsByID
                 /\ configUpdate' = << >>
            ELSE /\ WorkloadsByID' = [WorkloadsByID EXCEPT ![id].Labels = labels.m]
                 /\ configUpdate' = << TRUE >>
    /\ UNCHANGED <<EndpointShardsByService, edsUpdates, ev, sweep, regVars, last, normVars,
                   asgVars, cfgVars, svcCall, cidVars>>

\* ====================================================== assignment builder
\* model.ParseSubsetKey: the cluster name "direction|port|subset|hostname"
\* split into its fields, as a table over ClusterNames.
ParseSubsetKey(clusterName) ==
    CASE clusterName = "outbound|80||svc1" ->
            [direction |-> "outbound", subsetName |-> "", hostname |-> "svc1", port |-> 80]
      [] clusterName = "outbound|80|v2|svc1" ->
            [direction |-> "outbound", subsetName |-> "v2", hostname |-> "svc1", port |-> 80]
      [] clusterName = "outbound|80||svc2" ->
            [direction |-> "outbound", subsetName |-> "", hostname |-> "svc2", port |-> 80]

\* push.SubsetToLabels: the selector labels the destination rule of the
\* host gives the subset; no subset name gives the nil collection.
SubsetToLabels(subsetName, hostname) ==
    IF subsetName = "v2" /\ hostname = "svc1" THEN << [version |-> "v2"] >> ELSE << >>

\* model.Labels.SubsetOf and model.LabelsCollection.HasSubsetOf: an empty
\* collection matches every label set.
SubsetOf(a, b) == \A k \in DOMAIN a : k \in DOMAIN b /\ b[k] = a[k]
HasSubsetOf(collection, that) ==
    Len(collection) = 0 \/ \E i \in 1..Len(collection) : SubsetOf(collection[i], that)

\* model.PortList.GetByPort: the first port of the list with the number.
PortIndexes(portMap, num) == { i \in 1..Len(portMap) : portMap[i].Port = num }
PortFound(portMap, num) == PortIndexes(portMap, num) # {}
GetByPort(portMap, num) ==
    portMap[CHOOSE i \in PortIndexes(portMap, num) : \A j \in PortIndexes(portMap, num) : i <= j]

\* The orders in which a Go range can visit the keys of a map.
RangeOrders(keys) ==
    { f \in [1..Cardinality(keys) -> keys] : \A k \in keys : \E i \in DOMAIN f : f[i] = k }

\* ---- SvcUpdate(cluster, hostname, ports, rports)
\* The port maps service discovery reports: port name -> number.
PortMaps == { [http |-> 80], [grpc |-> 9090], [http |-> 80, grpc |-> 80] }
RegistryClusters == {"", "r2"}

\* (mutation of SetPortList: the port list of any cluster is stored)
SetPortListOfAnyCluster(cluster, hostname, pl) == Put(ServicePort2Name, hostname, pl)

\* if cluster == "" { pc.ServicePort2Name[hostname] = pl }
SetPortList(cluster, hostname, pl) ==
    IF cluster = "" THEN Put(ServicePort2Name, hostname, pl) ELSE ServicePort2Name

\* The whole call, under s.mutex; h: the call is recorded in svcCall.
SvcUpdate(H, h) ==
    /\ \E cluster \in RegistryClusters, hostname \in H, ports \in PortMaps :
         \E order \in RangeOrders(DOMAIN ports) :
            LET pl == [i \in 1..Len(order) |-> [Port |-> ports[order[i]], Name |-> order[i]]]
            IN /\ ServicePort2Name' = SetPortList(cluster, hostname, pl)
               /\ svcCall' = IF h THEN [op |-> "SvcUpdate", cluster |-> cluster,
                                        hostname |-> hostname, ports |-> ports,
                                        before |-> ServicePort2Name]
                             ELSE svcCall
    /\ UNCHANGED <<regVars, last, storeVars, normVars, asgVars, hasFilters, wlVars, cidVars>>

\* ---- the objects a goroutine still points to
\* uint32(len(...)) of a list shorter than 2^16.
FromLen(n) == Num(0, n)

\* Naming of the ClusterLoadAssignment objects: the object entry e points
\* to is object e; an object a goroutine still holds in l after the entry
\* was given a new one is one of the objects above MaxEntries.
Detached == ClaIds \ EntryIds
Holders(id, lc) == { t \in Threads : lc[t].l = id }
FreeDetached(lc) == CHOOSE d \in Detached : Holders(d, lc) = {}
\* Objects no goroutine holds any more are reclaimed.
Reclaim(cla, lc) == [i \in ClaIds |-> IF i \in Detached /\ Holders(i, lc) = {} THEN << >> ELSE cla[i]]
\* The entry c gets a new object with the given endpoints: the object it
\* pointed to, if still held, lives on under a name of its own.
Replace(cla, c, locEps) ==
    IF Holders(c, loc) = {} THEN [cla EXCEPT ![c] = locEps]
    ELSE [cla EXCEPT ![FreeDetached(loc)] = cla[c], ![c] = locEps]
Repoint(c) ==
    IF Holders(c, loc) = {} THEN loc
    ELSE [t \in Threads |-> IF t \in Holders(c, loc)
                             THEN [loc[t] EXCEPT !.l = FreeDetached(loc)] ELSE loc[t]]

\* ---- updateClusterInc(push, clusterName, edsCluster): the merge loop
\* The test of the loop body: the entry passes both continue statements.
SelectedAnyPort(el, svcPort, labels) == HasSubsetOf(labels, el.Labels)
Selected(el, svcPort, labels) ==
    /\ svcPort.Name = el.ServicePortName
    /\ HasSubsetOf(labels, el.Labels)

\* (el.Labels)[model.AZLabel], "" when the label is absent.
Locality(el) == IF AZLabel \in DOMAIN el.Labels THEN el.Labels[AZLabel] ELSE ""
\* buildEnvoyLbEndpoint: the wire endpoint carries the address.
buildEnvoyLbEndpoint(el) == [Address |-> el.Address]

\* The selected entries, in the order the loop visits them for one range
\* order of the shards.
SelectedEntries(shards, order, svcPort, labels) ==
    LET Keep(el) == Selected(el, svcPort, labels)
        F[i \in 0..Len(order)] ==
            IF i = 0 THEN << >> ELSE F[i - 1] \o SelectSeq(shards[order[i]], Keep)
    IN F[Len(order)]

\* localityEpMap after the loop: for each zone the wire endpoints of the
\* entries of that zone, in visiting order.
LocalityKeys(els) == { Locality(els[i]) : i \in 1..Len(els) }
\* (mutation of LocalityEps: every group gets the endpoints of all zones)
LocalityEpsOfAllZones(els, zone) ==
    [i \in 1..Len(els) |-> buildEnvoyLbEndpoint(els[i])]

LocalityEps(els, zone) ==
    LET In(el) == Locality(el) = zone
        sel == SelectSeq(els, In)
    IN [i \in 1..Len(sel) |-> buildEnvoyLbEndpoint(sel[i])]

\* locEps: one group per key of localityEpMap in range order, weighted by
\* its number of endpoints.
WeightedLocEps(els, zoneOrder) ==
    [i \in 1..Len(zoneOrder) |->
        Group(zoneOrder[i], LocalityEps(els, zoneOrder[i]),
              FromLen(Len(LocalityEps(els, zoneOrder[i]))))]

\* (mutation of Incremental: a cluster of a subset always takes the full path)
IncrementalWithoutSubset(clusterName) ==
    LET k == ParseSubsetKey(clusterName)
    IN /\ k.hostname \in DOMAIN ServicePort2Name
       /\ PortFound(ServicePort2Name[k.hostname], k.port)
       /\ Found(k.hostname)
       /\ k.subsetName = ""

\* The three early returns into updateCluster.
Incremental(clusterName) ==
    LET k == ParseSubsetKey(clusterName)
    IN /\ k.hostname \in DOMAIN ServicePort2Name
       /\ PortFound(ServicePort2Name[k.hostname], k.port)
       /\ Found(k.hostname)

\* updateClusterInc up to the lock: either delegate to updateCluster or
\* merge the shards into locEps.
IncCompute(t) ==
    /\ pc[t] = "inc_compute"
    /\ LET clusterName == loc[t].name
           k == ParseSubsetKey(clusterName)
           labels == SubsetToLabels(k.subsetName, k.hostname)
       IN IF ~Incremental(clusterName)
          THEN /\ pc' = [pc EXCEPT ![t] = "full_query"]
               /\ UNCHANGED loc
          ELSE LET svcPort == GetByPort(ServicePort2Name[k.hostname], k.port)
                   shards == EndpointShardsByService[k.hostname].Shards
               IN \E order \in RangeOrders(DOMAIN shards) :
                    LET els == SelectedEntries(shards, order, svcPort, labels)
                    IN \E zoneOrder \in RangeOrders(LocalityKeys(els)) :
                         /\ loc' = [loc EXCEPT ![t].locEps = WeightedLocEps(els, zoneOrder),
                                               ![t].svcPort = svcPort,
                                               ![t].path = "inc",
                                               ![t].seen = shards]
                         /\ pc' = [pc EXCEPT ![t] = "bld_lock"]
    /\ UNCHANGED <<edsClusters, EdsClients, entryName, edsClusterMutex, mutex, last, otherVars>>

\* ---- updateCluster(push, clusterName, edsCluster)
\* The instances InstancesByPort can return for a query: service discovery
\* is outside this file, any of these lists is a possible answer.
Instance(addr, labels) == Ep(addr, "http", labels, "")
ZoneA == Instance("10.0.1.1", [zone |-> "az1"])
NoZone == Instance("10.0.1.3", [version |-> "v2"])
BadAddress == Instance("", [zone |-> "az2"])
InstanceLists == { << >>, << ZoneA, BadAddress, NoZone >> }

\* networkEndpointToEnvoyEndpoint fails on an address that does not validate.
ValidAddress(el) == el.Address # ""

\* localityLbEndpointsFromInstances: instances that convert, grouped by
\* zone, groups in range order of the map, weights not yet set.
localityLbEndpointsFromInstances(instances, zoneOrder) ==
    LET els == SelectSeq(instances, ValidAddress)
    IN [i \in 1..Len(zoneOrder) |-> Group(zoneOrder[i], LocalityEps(els, zoneOrder[i]), Zero)]

\* The weight loop of updateCluster.
SetWeights(locEps) ==
    [i \in 1..Len(locEps) |->
        [locEps[i] EXCEPT !.LoadBalancingWeight = FromLen(Len(locEps[i].LbEndpoints))]]

\* Where a build returns to: the push that called updateCluster, or the
\* next cluster of edsIncremental.
BuildDone(t) == IF loc[t].ret = "push" THEN "push_reload_lock" ELSE "inc_next"
BuildFailed(t) == IF loc[t].ret = "push" THEN "push_next" ELSE "inc_next"

\* updateCluster up to the lock, the query answered with instances.
FullQuery(t) ==
    /\ pc[t] = "full_query"
    /\ LET k == ParseSubsetKey(loc[t].name)
       IN IF k.direction \in {"inbound", "outbound"}
          THEN \E instances \in InstanceLists :
                 \E zoneOrder \in RangeOrders(LocalityKeys(SelectSeq(instances, ValidAddress))) :
                    loc' = [loc EXCEPT
                              ![t].locEps = SetWeights(localityLbEndpointsFromInstances(instances, zoneOrder)),
                              ![t].path = "full",
                              ![t].seen = << >>,
                              ![t].instances = instances]
          ELSE loc' = [loc EXCEPT ![t].locEps = << >>, ![t].path = "full", ![t].seen = << >>]
    /\ pc' = [pc EXCEPT ![t] = "bld_lock"]
    /\ UNCHANGED <<edsClusters, EdsClients, entryName, edsClusterMutex, mutex, last, otherVars>>

\* A failing query that also drops the stored assignment.
FullQueryErrorClears(t) ==
    /\ pc[t] = "full_query"
    /\ ParseSubsetKey(loc[t].name).direction \in {"inbound", "outbound"}
    /\ pc' = [pc EXCEPT ![t] = BuildFailed(t)]
    /\ loc' = [loc EXCEPT ![t].i = IF loc[t].ret = "push" THEN @ + 1 ELSE @,
                          ![t].failed = IF loc[t].ret = "push" THEN @ \cup {loc[t].i} ELSE @,
                          ![t].ran = IF loc[t].ret = "inc" THEN @ \cup {loc[t].name} ELSE @,
                          ![t].kept = IF loc[t].ret = "inc" THEN @ \cup {loc[t].name} ELSE @]
    /\ LoadAssignment' = [LoadAssignment EXCEPT ![loc[t].c] = NIL]
    /\ UNCHANGED <<edsClusters, EdsClients, entryName, edsClusterMutex, mutex, last,
                   NonEmptyTime, claEndpoints, claInstalled, storeVars, normVars, cfgVars, srvVars>>

\* InstancesByPort returns an error: updateCluster returns it.
FullQueryError(t) ==
    /\ pc[t] = "full_query"
    /\ ParseSubsetKey(loc[t].name).direction \in {"inbound", "outbound"}
    /\ pc' = [pc EXCEPT ![t] = BuildFailed(t)]
    /\ loc' = [loc EXCEPT ![t].i = IF loc[t].ret = "push" THEN @ + 1 ELSE @,
                          ![t].failed = IF loc[t].ret = "push" THEN @ \cup {loc[t].i} ELSE @,
                          ![t].ran = IF loc[t].ret = "inc" THEN @ \cup {loc[t].name} ELSE @,
                          ![t].kept = IF loc[t].ret = "inc" THEN @ \cup {loc[t].name} ELSE @]
    /\ UNCHANGED <<edsClusters, EdsClients, entryName, edsClusterMutex, mutex, last, otherVars>>

\* edsCluster.mutex.Lock() of either builder.
BuildLock(t) ==
    /\ pc[t] = "bld_lock"
    /\ mutex[loc[t].c] = NONE
    /\ mutex' = [mutex EXCEPT ![loc[t].c] = t]
    /\ pc' = [pc EXCEPT ![t] = "bld_install"]
    /\ UNCHANGED <<edsClusters, EdsClients, entryName, edsClusterMutex, loc, last, otherVars>>

\* The install under the lock: a new ClusterLoadAssignment replaces the
\* pointer, NonEmptyTime is set once, the deferred unlock runs.
BuildInstall(t) ==
    /\ pc[t] = "bld_install"
    /\ LET c == loc[t].c
       IN /\ LoadAssignment' = [LoadAssignment EXCEPT ![c] = c]
          /\ claEndpoints' = Replace(claEndpoints, c, loc[t].locEps)
          /\ claInstalled' = Replace(claInstalled, c, loc[t].locEps)
          /\ loc' = [Repoint(c) EXCEPT
                        ![t].ran = IF loc[t].ret = "inc" THEN @ \cup {loc[t].name} ELSE @]
          /\ NonEmptyTime' = [NonEmptyTime EXCEPT ![c] = @ \/ Len(loc[t].locEps) > 0]
          /\ mutex' = [mutex EXCEPT ![c] = NONE]
    /\ pc' = [pc EXCEPT ![t] = BuildDone(t)]
    /\ UNCHANGED <<edsClusters, EdsClients, entryName, edsClusterMutex, last,
                   storeVars, normVars, cfgVars, srvVars>>

updateCluster(t) == FullQuery(t) \/ FullQueryError(t) \/ BuildLock(t) \/ BuildInstall(t)
updateClusterInc(t) == IncCompute(t) \/ updateCluster(t)

\* ---- edsIncremental(version, push, edsUpdates)
\* The sets of updated services a caller passes.
UpdatedServices == { {"svc1"}, {"svc2"} }

CallEdsIncremental(t) ==
    /\ pc[t] = "idle"
    /\ \E upd \in UpdatedServices : loc' = [loc EXCEPT ![t] = [NoLoc EXCEPT !.upd = upd]]
    /\ pc' = [pc EXCEPT ![t] = "inc_reglock"]
    /\ UNCHANGED <<edsClusters, EdsClients, entryName, edsClusterMutex, mutex, last, otherVars>>

EdsIncLock(t) ==
    /\ pc[t] = "inc_reglock"
    /\ CanLock
    /\ edsClusterMutex' = Locked(t)
    /\ pc' = [pc EXCEPT ![t] = "inc_snapshot"]
    /\ UNCHANGED <<edsClusters, EdsClients, entryName, mutex, loc, last, otherVars>>

\* (mutation of UpdatedClusters: every registered cluster is recomputed)
UpdatedClustersOfAnyHost(upd) ==
    { k \in ClusterNames : edsClusters[k] # NIL }

\* cMap: the registered clusters whose hostname is in edsUpdates.
UpdatedClusters(upd) ==
    { k \in ClusterNames : edsClusters[k] # NIL /\ ParseSubsetKey(k).hostname \in upd }

\* (mutation of EdsIncSnapshot: the registry lock is kept during the builds)
EdsIncSnapshotHoldsRegistry(t) ==
    /\ pc[t] = "inc_snapshot"
    /\ loc' = [loc EXCEPT ![t].cMap = [k \in UpdatedClusters(loc[t].upd) |-> edsClusters[k]],
                          ![t].snap = UpdatedClusters(loc[t].upd)]
    /\ edsClusterMutex' = edsClusterMutex
    /\ pc' = [pc EXCEPT ![t] = "inc_next"]
    /\ UNCHANGED <<edsClusters, EdsClients, entryName, mutex, last, otherVars>>

\* The snapshot under the registry lock, and edsClusterMutex.Unlock().
EdsIncSnapshot(t) ==
    /\ pc[t] = "inc_snapshot"
    /\ loc' = [loc EXCEPT ![t].cMap = [k \in UpdatedClusters(loc[t].upd) |-> edsClusters[k]],
                          ![t].snap = UpdatedClusters(loc[t].upd)]
    /\ edsClusterMutex' = Unlocked
    /\ pc' = [pc EXCEPT ![t] = "inc_next"]
    /\ UNCHANGED <<edsClusters, EdsClients, entryName, mutex, last, otherVars>>

\* One turn of the loop over cMap (in range order), or the end of the loop.
EdsIncNext(t) ==
    /\ pc[t] = "inc_next"
    /\ IF DOMAIN loc[t].cMap = {}
       THEN /\ pc' = [pc EXCEPT ![t] = "inc_start"]
            /\ loc' = [loc EXCEPT ![t] =
                          [NoLoc EXCEPT !.upd = loc[t].upd, !.snap = loc[t].snap,
                                        !.ran = loc[t].ran, !.kept = loc[t].kept]]
       ELSE \E clusterName \in DOMAIN loc[t].cMap :
              /\ loc' = [loc EXCEPT ![t] =
                            [NoLoc EXCEPT !.upd = loc[t].upd,
                                          !.snap = loc[t].snap,
                                          !.ran = loc[t].ran,
                                          !.kept = loc[t].kept,
                                          !.name = clusterName,
                                          !.c = loc[t].cMap[clusterName],
                                          !.ret = "inc",
                                          !.cMap = [k \in DOMAIN loc[t].cMap \ {clusterName} |->
                                                      loc[t].cMap[k]]]]
              /\ pc' = [pc EXCEPT ![t] = "inc_compute"]
    /\ UNCHANGED <<edsClusters, EdsClients, entryName, edsClusterMutex, mutex, last, otherVars>>

\* s.startPush(version, push, false, edsUpdates): the per-connection push
\* is invoked with the updated services as its filter; it is followed here
\* for one of the connections C, the call just returns when there is none.
StartPush(t, C) ==
    /\ pc[t] = "inc_start"
    /\ IF C = {}
       THEN /\ pc' = [pc EXCEPT ![t] = "idle"]
            /\ loc' = [loc EXCEPT ![t] = NoLoc]
       ELSE /\ \E con \in C :
                 loc' = [loc EXCEPT ![t] =
                           [NoLoc EXCEPT !.conn = con, !.filter = TRUE, !.upd = loc[t].upd,
                                         !.i = 1, !.inc = TRUE, !.snap = loc[t].snap,
                                         !.ran = loc[t].ran, !.kept = loc[t].kept]]
            /\ pc' = [pc EXCEPT ![t] = "push_next"]
    /\ UNCHANGED <<edsClusters, EdsClients, entryName, edsClusterMutex, mutex, last, otherVars>>

edsIncremental(t, C) ==
    \/ CallEdsIncremental(t)
    \/ EdsIncLock(t)
    \/ EdsIncSnapshot(t)
    \/ EdsIncNext(t)
    \/ updateClusterInc(t)
    \/ StartPush(t, C)

\* ========================================================== connectionID
\* The largest suffix a call has returned so far (0: none has returned).
RECURSIVE LargestReturned(_)
LargestReturned(n) ==
    IF n = 0 THEN 0
    ELSE IF cids[n].id > LargestReturned(n - 1) THEN cids[n].id ELSE LargestReturned(n - 1)
\* The calls that have started and not returned.
ConnectionIDCalls == { t \in Threads : pc[t] \in {"cid_add", "cid_return"} }

\* A goroutine enters connectionID(node); the number of calls is bounded.
CallConnectionID(t) ==
    /\ pc[t] = "idle"
    /\ Len(cids) + Cardinality(ConnectionIDCalls) < MaxConnections
    /\ \E node \in Nodes :
          loc' = [loc EXCEPT ![t] = [NoLoc EXCEPT !.node = node,
                                                  !.floor = LargestReturned(Len(cids))]]
    /\ pc' = [pc EXCEPT ![t] = "cid_add"]
    /\ UNCHANGED <<edsClusters, EdsClients, entryName, edsClusterMutex, mutex, last,
                   storeVars, normVars, asgVars, cfgVars, wlVars, svcCall, cidVars>>

\* (mutation of ConnectionIDAdd: the counter is loaded when the call starts
\* and stored incremented later)
ConnectionIDAddLoadStore(t) ==
    /\ pc[t] = "cid_add"
    /\ connectionNumber' = loc[t].floor + 1
    /\ loc' = [loc EXCEPT ![t].id = loc[t].floor + 1]
    /\ pc' = [pc EXCEPT ![t] = "cid_return"]
    /\ UNCHANGED <<edsClusters, EdsClients, entryName, edsClusterMutex, mutex, last,
                   storeVars, normVars, asgVars, cfgVars, wlVars, svcCall, cids>>

\* id := atomic.AddInt64(&connectionNumber, 1): one indivisible step.
ConnectionIDAdd(t) ==
    /\ pc[t] = "cid_add"
    /\ connectionNumber' = connectionNumber + 1
    /\ loc' = [loc EXCEPT ![t].id = connectionNumber + 1]
    /\ pc' = [pc EXCEPT ![t] = "cid_return"]
    /\ UNCHANGED <<edsClusters, EdsClients, entryName, edsClusterMutex, mutex, last,
                   storeVars, normVars, asgVars, cfgVars, wlVars, svcCall, cids>>

\* return node + "-" + strconv.FormatInt(id, 10): the node and the suffix.
ConnectionIDReturn(t) ==
    /\ pc[t] = "cid_return"
    /\ cids' = Append(cids, [node |-> loc[t].node, id |-> loc[t].id, floor |-> loc[t].floor])
    /\ pc' = [pc EXCEPT ![t] = "idle"]
    /\ loc' = [loc EXCEPT ![t] = NoLoc]
    /\ UNCHANGED <<edsClusters, EdsClients, entryName, edsClusterMutex, mutex, last,
                   storeVars, normVars, asgVars, cfgVars, wlVars, svcCall, connectionNumber>>

connectionID(t) == CallConnectionID(t) \/ ConnectionIDAdd(t) \/ ConnectionIDReturn(t)

\* ================================================================ pushEds
\* con.Clusters: the clusters a connection watches, in watch order.
WatchedClusters(con) ==
    IF con = "x1" THEN << "outbound|80||svc1", "outbound|80|v2|svc1" >>
    ELSE << "outbound|80|v2|svc1" >>

\* s.applyEndpointsFilterFuncs(l.Endpoints, con): the registered filters
\* return locality groups of their own; here any sub-list of the groups.
SubLists(endpoints) ==
    { SelectSeq([i \in 1..Len(endpoints) |-> [g |-> endpoints[i], keep |-> i \in K]],
                LAMBDA x : x.keep) : K \in SUBSET (1..Len(endpoints)) }
applyEndpointsFilterFuncs(endpoints, con) ==
    { [i \in 1..Len(s) |-> s[i].g] : s \in SubLists(endpoints) }

\* A goroutine enters pushEds(push, con, full, edsUpdatedServices);
\* filter is edsUpdatedServices != nil.
CallPushEds(t, C) ==
    /\ pc[t] = "idle"
    /\ \E con \in C, filter \in BOOLEAN, upd \in UpdatedServices :
         loc' = [loc EXCEPT ![t] = [NoLoc EXCEPT !.conn = con, !.filter = filter,
                                                 !.upd = IF filter THEN upd ELSE {},
                                                 !.i = 1]]
    /\ pc' = [pc EXCEPT ![t] = "push_next"]
    /\ UNCHANGED <<edsClusters, EdsClients, entryName, edsClusterMutex, mutex, last, otherVars>>

\* The head of the loop over con.Clusters: the update filter.
PushNext(t) ==
    /\ pc[t] = "push_next"
    /\ loc[t].i <= Len(WatchedClusters(loc[t].conn))
    /\ LET clusterName == WatchedClusters(loc[t].conn)[loc[t].i]
           hostname == ParseSubsetKey(clusterName).hostname
       IN IF loc[t].filter /\ hostname \notin loc[t].upd
          THEN /\ loc' = [loc EXCEPT ![t].i = @ + 1]
               /\ UNCHANGED pc
          ELSE /\ loc' = [loc EXCEPT ![t].name = clusterName]
               /\ pc' = [pc EXCEPT ![t] = "push_rlock"]
    /\ UNCHANGED <<edsClusters, EdsClients, entryName, edsClusterMutex, mutex, last, otherVars>>

\* c := s.getEdsCluster(clusterName), under the read lock.
PushRLock(t) ==
    /\ pc[t] = "push_rlock"
    /\ CanRLock
    /\ edsClusterMutex' = RLocked(t)
    /\ pc' = [pc EXCEPT ![t] = "push_get"]
    /\ UNCHANGED <<edsClusters, EdsClients, entryName, mutex, loc, last, otherVars>>

\* (mutation of PushGet: a missing entry ends the loop)
PushGetStopsAtMissing(t) ==
    /\ pc[t] = "push_get"
    /\ edsClusterMutex' = RUnlocked(t)
    /\ LET c == getEdsCluster(loc[t].name)
       IN IF c = NIL
          THEN /\ loc' = [loc EXCEPT ![t].i = Len(WatchedClusters(loc[t].conn)) + 1]
               /\ pc' = [pc EXCEPT ![t] = "push_next"]
          ELSE /\ loc' = [loc EXCEPT ![t].c = c]
               /\ pc' = [pc EXCEPT ![t] = "push_load_lock"]
    /\ UNCHANGED <<edsClusters, EdsClients, entryName, mutex, last, otherVars>>

PushGet(t) ==
    /\ pc[t] = "push_get"
    /\ edsClusterMutex' = RUnlocked(t)
    /\ LET c == getEdsCluster(loc[t].name)
       IN IF c = NIL
          THEN /\ loc' = [loc EXCEPT ![t].i = @ + 1]
               /\ pc' = [pc EXCEPT ![t] = "push_next"]
          ELSE /\ loc' = [loc EXCEPT ![t].c = c]
               /\ pc' = [pc EXCEPT ![t] = "push_load_lock"]
    /\ UNCHANGED <<edsClusters, EdsClients, entryName, mutex, last, otherVars>>

\* l := loadAssignment(c): lock, read the pointer, unlock.
PushLoadLock(t) ==
    /\ pc[t] = "push_load_lock"
    /\ mutex[loc[t].c] = NONE
    /\ mutex' = [mutex EXCEPT ![loc[t].c] = t]
    /\ pc' = [pc EXCEPT ![t] = "push_load"]
    /\ UNCHANGED <<edsClusters, EdsClients, entryName, edsClusterMutex, loc, last, otherVars>>

loadAssignment(c) == LoadAssignment[c]

\* A nil assignment sends the push into updateCluster (fresh cluster).
PushLoad(t) ==
    /\ pc[t] = "push_load"
    /\ mutex' = [mutex EXCEPT ![loc[t].c] = NONE]
    /\ LET l == loadAssignment(loc[t].c)
       IN IF l = NIL
          THEN /\ loc' = [loc EXCEPT ![t].ret = "push"]
               /\ pc' = [pc EXCEPT ![t] = "full_query"]
          ELSE /\ loc' = [loc EXCEPT ![t].l = l,
                                     ![t].old = IF loc[t].inc /\ loc[t].name \in loc[t].kept
                                                THEN @ \cup {loc[t].name} ELSE @]
               /\ pc' = [pc EXCEPT ![t] = "push_filter"]
    /\ UNCHANGED <<edsClusters, EdsClients, entryName, edsClusterMutex, last, otherVars>>

\* l = loadAssignment(c) after the build.
PushReloadLock(t) ==
    /\ pc[t] = "push_reload_lock"
    /\ mutex[loc[t].c] = NONE
    /\ mutex' = [mutex EXCEPT ![loc[t].c] = t]
    /\ pc' = [pc EXCEPT ![t] = "push_reload"]
    /\ UNCHANGED <<edsClusters, EdsClients, entryName, edsClusterMutex, loc, last, otherVars>>

PushReload(t) ==
    /\ pc[t] = "push_reload"
    /\ mutex' = [mutex EXCEPT ![loc[t].c] = NONE]
    /\ loc' = [loc EXCEPT ![t].l = loadAssignment(loc[t].c), ![t].ret = "",
                          ![t].locEps = << >>, ![t].path = "", ![t].instances = << >>]
    /\ pc' = [pc EXCEPT ![t] = "push_filter"]
    /\ UNCHANGED <<edsClusters, EdsClients, entryName, edsClusterMutex, last, otherVars>>

\* One resource of the response: the marshalled assignment.
Resource(clusterName, endpoints) == [ClusterName |-> clusterName, Endpoints |-> endpoints]

\* With filters registered l becomes a new object of the goroutine: it is
\* filtered, normalized, marshalled and appended.  Without filters the
\* Endpoints of the loaded object are read and normalized.
PushFilter(t) ==
    /\ pc[t] = "push_filter"
    /\ IF hasFilters
       THEN /\ \E filtered \in applyEndpointsFilterFuncs(claEndpoints[loc[t].l], loc[t].conn) :
                  loc' = [loc EXCEPT
                            ![t].l = NIL,
                            ![t].res = Append(@, Resource(loc[t].name,
                                                          normalizeLoadBalancingWeight(filtered))),
                            ![t].i = @ + 1]
            /\ pc' = [pc EXCEPT ![t] = "push_next"]
            /\ claEndpoints' = Reclaim(claEndpoints, loc')
            /\ claInstalled' = Reclaim(claInstalled, loc')
       ELSE /\ loc' = [loc EXCEPT ![t].eps = normalizeLoadBalancingWeight(claEndpoints[loc[t].l])]
            /\ pc' = [pc EXCEPT ![t] = "push_write"]
            /\ UNCHANGED <<claEndpoints, claInstalled>>
    /\ UNCHANGED <<edsClusters, EdsClients, entryName, edsClusterMutex, mutex, last,
                   LoadAssignment, NonEmptyTime, storeVars, normVars, cfgVars, srvVars>>

\* l.Endpoints = <the normalized list>, on the loaded object, no lock held.
PushWrite(t) ==
    /\ pc[t] = "push_write"
    /\ claEndpoints' = [claEndpoints EXCEPT ![loc[t].l] = loc[t].eps]
    /\ pc' = [pc EXCEPT ![t] = "push_marshal"]
    /\ UNCHANGED <<edsClusters, EdsClients, entryName, edsClusterMutex, mutex, loc, last,
                   LoadAssignment, NonEmptyTime, claInstalled, storeVars, normVars, cfgVars, srvVars>>

\* types.MarshalAny(l) reads the object again; the resource is appended.
PushMarshal(t) ==
    /\ pc[t] = "push_marshal"
    /\ loc' = [loc EXCEPT ![t].l = NIL,
                          ![t].eps = << >>,
                          ![t].res = Append(@, Resource(loc[t].name, claEndpoints[loc[t].l])),
                          ![t].i = @ + 1]
    /\ pc' = [pc EXCEPT ![t] = "push_next"]
    /\ claEndpoints' = Reclaim(claEndpoints, loc')
    /\ claInstalled' = Reclaim(claInstalled, loc')
    /\ UNCHANGED <<edsClusters, EdsClients, entryName, edsClusterMutex, mutex, last,
                   LoadAssignment, NonEmptyTime, storeVars, normVars, cfgVars, srvVars>>

\* After the loop: s.endpoints(con.Clusters, resAny), the response.
DiscoveryResponse(con, resAny) == [con |-> con, Resources |-> resAny]

\* con.send(response) is called with the response in loc[t].res.
PushSend(t) ==
    /\ pc[t] = "push_next"
    /\ loc[t].i > Len(WatchedClusters(loc[t].conn))
    /\ pc' = [pc EXCEPT ![t] = "push_sent"]
    /\ UNCHANGED <<edsClusters, EdsClients, entryName, edsClusterMutex, mutex, loc, last, otherVars>>

\* send has returned (nil or an error): pushEds returns.
PushReturn(t) ==
    /\ pc[t] = "push_sent"
    /\ pc' = [pc EXCEPT ![t] = "idle"]
    /\ loc' = [loc EXCEPT ![t] = NoLoc]
    /\ UNCHANGED <<edsClusters, EdsClients, entryName, edsClusterMutex, mutex, last, otherVars>>

\* The response a goroutine has handed to send.
Sent(t) == DiscoveryResponse(loc[t].conn, loc[t].res)

pushEds(t, C) ==
    \/ CallPushEds(t, C)
    \/ PushNext(t)
    \/ PushRLock(t)
    \/ PushGet(t)
    \/ PushLoadLock(t)
    \/ PushLoad(t)
    \/ PushReloadLock(t)
    \/ PushReload(t)
    \/ PushFilter(t)
    \/ PushWrite(t)
    \/ PushMarshal(t)
    \/ PushSend(t)
    \/ PushReturn(t)

\* ------------------------------------------------------- specifications
\* The cluster the concurrent callers contend for.
RegNames == {"outbound|80||svc1"}

\* Concurrent AddClient / RemoveClient on the registry.
NextReg == \E t \in Threads : addEdsCon(t, RegNames, FALSE) \/ removeEdsCon(t, RegNames, FALSE)
SpecReg == Init /\ [][NextReg]_vars

\* The same calls, one at a time (a single goroutine); every call is
\* recorded in last.
NextSeq == addEdsCon(1, Svc1Clusters, TRUE) \/ removeEdsCon(1, Svc1Clusters, TRUE)
SpecSeq == Init /\ [][NextSeq]_vars

\* Registry events and the reconciler on the shard store.
NextShard == EDSUpdate(Services, ShardInputs) \/ updateServiceShards(ShardInputs)
SpecShard == Init /\ [][NextShard]_vars

\* Endpoints the registries report in the builder runs: two versions, two
\* zones and none, two port names.
V1Az1 == Ep("10.0.0.1", "http", [version |-> "v1", zone |-> "az1"], "")
V2Az1 == Ep("10.0.0.2", "http", [version |-> "v2", zone |-> "az1"], "")
V2Az2 == Ep("10.0.0.3", "http", [version |-> "v2", zone |-> "az2"], "")
V2Grpc == Ep("10.0.0.4", "grpc", [version |-> "v2"], "")
IncInputs == { << V1Az1, V2Az1 >>, << V2Az1, V2Az2, V2Grpc >> }
IncServices == {"svc1"}

\* Incremental builds by one goroutine while the registries report ports
\* and endpoints, on a registry with one subscribed cluster.
InitInc ==
    /\ \E name \in Svc1Clusters : SubscribedTo(name)
    /\ InitOthers
    /\ normIn = << >>
    /\ normOut = << >>
    /\ normDone = FALSE
    /\ hasFilters = FALSE
NextInc == SvcUpdate(IncServices, FALSE) \/ EDSUpdate(IncServices, IncInputs) \/ edsIncremental(1, {})
SpecInc == InitInc /\ [][NextInc]_vars

\* Concurrent pushes to one connection and builds, with and without
\* endpoint filters registered, on a registry with one subscribed cluster.
PushConns == {"x1"}
InitPush ==
    /\ \E name \in Svc1Clusters : SubscribedTo(name)
    /\ InitOthers
    /\ normIn = << >>
    /\ normOut = << >>
    /\ normDone = FALSE
    /\ hasFilters \in BOOLEAN
NextPush == \E t \in Threads : pushEds(t, PushConns) \/ edsIncremental(t, {})
SpecPush == InitPush /\ [][NextPush]_vars

\* Concurrent incremental builds of one cluster while the registries report
\* endpoints; the push context maps port 80 of svc1 to "http" (the state
\* after SvcUpdate("", "svc1", {http: 80}, ...)).
RaceInputs == { << V1Az1 >>, << V2Az1, V2Az2 >> }
InitRace ==
    /\ SubscribedTo("outbound|80||svc1")
    /\ edsClusterMutex = [writer |-> NONE, readers |-> {}]
    /\ mutex = [e \in EntryIds |-> NONE]
    /\ pc = [t \in Threads |-> "idle"]
    /\ loc = [t \in Threads |-> NoLoc]
    /\ last = NoCall
    /\ EndpointShardsByService = << >>
    /\ edsUpdates = {}
    /\ configUpdate = << >>
    /\ ev = NoEvent
    /\ sweep = NoSweep
    /\ ServicePort2Name = Put(<< >>, "svc1", << [Port |-> 80, Name |-> "http"] >>)
    /\ LoadAssignment = [e \in EntryIds |-> NIL]
    /\ NonEmptyTime = [e \in EntryIds |-> FALSE]
    /\ claEndpoints = [i \in ClaIds |-> << >>]
    /\ claInstalled = [i \in ClaIds |-> << >>]
    /\ WorkloadsByID = << >>
    /\ wl = NoWorkloadCall
    /\ svcCall = NoSvcCall
    /\ connectionNumber = 0
    /\ cids = << >>
    /\ normIn = << >>
    /\ normOut = << >>
    /\ normDone = FALSE
    /\ hasFilters = FALSE
NextRace == EDSUpdate(IncServices, RaceInputs) \/ \E t \in Threads : edsIncremental(t, {})
SpecRace == InitRace /\ [][NextRace]_vars

\* An incremental push and the per-connection push it starts, with all
\* three clusters registered for connection x1, while a second goroutine
\* closes connections.
StartEntry(name) ==
    CASE name = "outbound|80||svc1" -> 1
      [] name = "outbound|80|v2|svc1" -> 2
      [] name = "outbound|80||svc2" -> 3
InitStart ==
    /\ edsClusters = [n \in ClusterNames |-> StartEntry(n)]
    /\ EdsClients = [e \in EntryIds |->
                       IF \E n \in ClusterNames : StartEntry(n) = e
                       THEN [n \in Nodes |-> IF n = "n1" THEN "x1" ELSE NilConn]
                       ELSE NoClients]
    /\ entryName = [e \in EntryIds |->
                       IF \E n \in ClusterNames : StartEntry(n) = e
                       THEN CHOOSE n \in ClusterNames : StartEntry(n) = e
                       ELSE ""]
    /\ InitOthers
    /\ normIn = << >>
    /\ normOut = << >>
    /\ normDone = FALSE
    /\ hasFilters = FALSE
\* The cluster whose connections are closed meanwhile.
ClosedNames == {"outbound|80|v2|svc1"}
NextStart ==
    \/ edsIncremental(1, PushConns)
    \/ pushEds(1, PushConns)
    \/ removeEdsCon(2, ClosedNames, FALSE)
SpecStart == InitStart /\ [][NextStart]_vars

\* Service events of the registries, every call recorded.
NextSvc == SvcUpdate(Services, TRUE)
SpecSvc == Init /\ [][NextSvc]_vars

\* Connections opened by concurrent goroutines.
NextConn == \E t \in Threads : connectionID(t)
SpecConn == Init /\ [][NextConn]_vars

\* Connections subscribing to and leaving one cluster (goroutine 1) while
\* builds and pushes run (goroutine 2).  Earlier rounds of subscribing and
\* leaving have used the entry ids below the current one, so the entry heap
\* of the model is full: addEdsCon is entered while the cluster is
\* registered (only goroutine 1 removes it), and never waits for an id.
\* The shard store holds one endpoint of svc1 on port http.
LockNames == {"outbound|80||svc1"}
HeapRoom == \A name \in LockNames : edsClusters[name] # NIL \/ FreeEntries # {}
CallAddEdsConInHeap(t, N) == HeapRoom /\ CallAddEdsCon(t, N, FALSE)
addEdsConInHeap(t, N) ==
    \/ CallAddEdsConInHeap(t, N)
    \/ GetOrAddLock(t)
    \/ GetOrAddBody(t)
    \/ AddLock(t)
    \/ AddSet(t)
InitLock ==
    /\ edsClusters = [n \in ClusterNames |-> IF n \in LockNames THEN MaxEntries ELSE NIL]
    /\ EdsClients = [e \in EntryIds |->
                       IF e = MaxEntries THEN [n \in Nodes |-> IF n = "n1" THEN "x1" ELSE NilConn]
                       ELSE NoClients]
    /\ entryName = [e \in EntryIds |-> "outbound|80||svc1"]
    /\ edsClusterMutex = [writer |-> NONE, readers |-> {}]
    /\ mutex = [e \in EntryIds |-> NONE]
    /\ pc = [t \in Threads |-> "idle"]
    /\ loc = [t \in Threads |-> NoLoc]
    /\ last = NoCall
    /\ EndpointShardsByService =
          Put(<< >>, "svc1", [Shards |-> Put(<< >>, "r1", << V1Az1 >>), ServiceAccounts |-> {}])
    /\ edsUpdates = {}
    /\ configUpdate = << >>
    /\ ev = NoEvent
    /\ sweep = NoSweep
    /\ ServicePort2Name = Put(<< >>, "svc1", << [Port |-> 80, Name |-> "http"] >>)
    /\ LoadAssignment = [e \in EntryIds |-> NIL]
    /\ NonEmptyTime = [e \in EntryIds |-> FALSE]
    /\ claEndpoints = [i \in ClaIds |-> << >>]
    /\ claInstalled = [i \in ClaIds |-> << >>]
    /\ WorkloadsByID = << >>
    /\ wl = NoWorkloadCall
    /\ svcCall = NoSvcCall
    /\ connectionNumber = 0
    /\ cids = << >>
    /\ normIn = << >>
    /\ normOut = << >>
    /\ normDone = FALSE
    /\ hasFilters = FALSE
Subscribe == addEdsConInHeap(1, LockNames) \/ removeEdsCon(1, LockNames, FALSE)
Build == edsIncremental(2, {}) \/ pushEds(2, PushConns)
NextLock == Subscribe \/ Build
SpecLock == InitLock /\ [][NextLock]_vars
\* The scheduler and the mutexes are fair to a call in progress: a goroutine
\* that can take a step again and again (a lock it waits for is free again
\* and again) takes it.  No call is ever required to start.
SpecLockFair ==
    /\ SpecLock
    /\ SF_vars(pc[1] # "idle" /\ Subscribe)
    /\ SF_vars(pc[2] # "idle" /\ Build)

\* Workload label events.
NextWorkload == WorkloadUpdate
SpecWorkload == Init /\ [][NextWorkload]_vars

\* The normalizer on every list of NormInputs.
InitNorm ==
    /\ InitRest
    /\ normIn \in NormInputs
    /\ normOut = << >>
    /\ normDone = FALSE
    /\ hasFilters = FALSE
NextNorm == Normalize
SpecNorm == InitNorm /\ [][NextNorm]_vars

AllIdle == \A t \in Threads : pc[t] = "idle"

\* ----------------------------------------------------------------- C4
\* C4: after every UpdateShard (EDSUpdate) call, the service-account set of
\* every service in the shard store is the union of the non-empty service
\* accounts of the endpoints of its current shards.  (Stated as claimed;
\* edsUpdate never adds to ServiceAccounts.)
C4_AccountsAreUnionOfShards ==
    ev.op = "EDSUpdate" =>
        \A s \in DOMAIN EndpointShardsByService :
            EndpointShardsByService[s].ServiceAccounts = AccountsInShards(s)

\* ----------------------------------------------------------------- C5
\* The endpoints the latest edsUpdate call stored.
LastEntries == EndpointShardsByService[ev.svc].Shards[ev.shard]

\* C5: an EDSUpdate for a service that was not in the shard store, or that
\* carries a non-empty service account outside the service's account set,
\* requests a full push: its one ConfigUpdate call has full = true.
C5_NewServiceOrAccountIsFullPush ==
    (ev.op = "EDSUpdate" /\ (~ev.found \/ AccountsOf(LastEntries) \ ev.accounts # {}))
        => configUpdate = << TRUE >>

\* C5 witness: a known service with a non-empty account set received an
\* endpoint with an account outside it, and a full push was requested.
C5_Witness ==
    /\ ev.op = "EDSUpdate"
    /\ ev.found
    /\ ev.accounts # {}
    /\ AccountsOf(LastEntries) \ ev.accounts # {}
    /\ configUpdate = << TRUE >>

\* ----------------------------------------------------------------- C6
\* C6: a shard update for a service already in the store, whose endpoints
\* carry only empty service accounts, accounts of the service's account set
\* or accounts an earlier update of the service introduced, requests an
\* incremental push.  (Stated as claimed; a repeated account is refused.)
C6_SeenAccountsAreIncremental ==
    (/\ ev.op = "EDSUpdate"
     /\ ev.found
     /\ AccountsOf(LastEntries) \subseteq ev.accounts \cup ev.carried)
        => configUpdate = << FALSE >>

\* ----------------------------------------------------------------- C7
Weights(endpoints) == [i \in 1..Len(endpoints) |-> endpoints[i].LoadBalancingWeight]

\* C7: when the total raw weight is not 0, every group's normalized weight
\* is at most 128 and at least 1 if its raw weight is at least 1; when the
\* total is 0 the list is returned as it is.  (Stated as claimed; the
\* uint32 product w * 128 and the uint32 sum wrap.)
C7_NormalizedWeightInRange ==
    normDone =>
        IF TotalWeight(normIn) = Zero THEN normOut = normIn
        ELSE \A i \in 1..Len(normOut) :
                /\ ~Less(Num(0, maxLoadBalancingWeight), normOut[i].LoadBalancingWeight)
                /\ normIn[i].LoadBalancingWeight # Zero
                        => normOut[i].LoadBalancingWeight # Zero

\* ----------------------------------------------------------------- C8
\* The sum of the raw weights as a number (no wrap).
ExactTotal(endpoints) ==
    LET F[i \in 0..Len(endpoints)] ==
            IF i = 0 THEN Zero ELSE Plus(F[i-1], endpoints[i].LoadBalancingWeight)
    IN F[Len(endpoints)]

\* C8: when the total raw weight T is not 0, the result has the groups of
\* the argument in the same order, group i with weight ceil(raw_i * 128 / T).
\* (Stated as claimed, in exact arithmetic.)
C8_NormalizedWeightIsCeil ==
    (normDone /\ ExactTotal(normIn) # Zero) =>
        /\ Len(normOut) = Len(normIn)
        /\ \A i \in 1..Len(normIn) :
              normOut[i] =
                [normIn[i] EXCEPT !.LoadBalancingWeight =
                    CeilDiv(Times(@, maxLoadBalancingWeight), ExactTotal(normIn))]

\* The claims of C7 and C8 on the lists whose weights stay below 2^25 and
\* whose sum stays below 2^32, where nothing wraps.
NoWrap(endpoints) ==
    /\ \A i \in 1..Len(endpoints) : endpoints[i].LoadBalancingWeight.hi < 512
    /\ ExactTotal(endpoints).hi < B16
NormalizedWithoutWrap ==
    (normDone /\ NoWrap(normIn) /\ ExactTotal(normIn) # Zero) =>
        /\ Len(normOut) = Len(normIn)
        /\ \A i \in 1..Len(normIn) :
              /\ normOut[i] =
                    [normIn[i] EXCEPT !.LoadBalancingWeight =
                        CeilDiv(Times(@, maxLoadBalancingWeight), ExactTotal(normIn))]
              /\ ~Less(Num(0, maxLoadBalancingWeight), normOut[i].LoadBalancingWeight)
              /\ normIn[i].LoadBalancingWeight # Zero
                      => normOut[i].LoadBalancingWeight # Zero

\* ----------------------------------------------------------------- C9
\* The incremental build of goroutine 1 has installed its assignment.
IncInstalled == pc[1] = "inc_next" /\ loc[1].path = "inc"
IncAssignment == claEndpoints[LoadAssignment[loc[1].c]]

\* The endpoint is one the claim includes: its port name is the name the
\* cluster's port number resolved to and it carries every label of the
\* subset's selector.
C9_Eligible(el) ==
    LET k == ParseSubsetKey(loc[1].name)
        selector == SubsetToLabels(k.subsetName, k.hostname)
    IN /\ el.ServicePortName = loc[1].svcPort.Name
       /\ \A i \in 1..Len(selector) : \A key \in DOMAIN selector[i] :
             key \in DOMAIN el.Labels /\ el.Labels[key] = selector[i][key]

\* How often an address occurs in the assignment, and how often an
\* eligible endpoint with that address occurs in the shards the build read.
C9_Placed(addr) ==
    Cardinality({ p \in (1..MaxGroups) \X (1..6) :
                    /\ p[1] <= Len(IncAssignment)
                    /\ p[2] <= Len(IncAssignment[p[1]].LbEndpoints)
                    /\ IncAssignment[p[1]].LbEndpoints[p[2]].Address = addr })
C9_Reported(addr) ==
    Cardinality({ p \in (DOMAIN loc[1].seen) \X (1..3) :
                    /\ p[2] <= Len(loc[1].seen[p[1]])
                    /\ loc[1].seen[p[1]][p[2]].Address = addr
                    /\ C9_Eligible(loc[1].seen[p[1]][p[2]]) })
IncAddresses == { V1Az1.Address, V2Az1.Address, V2Az2.Address, V2Grpc.Address }

\* C9: on the incremental build path, an endpoint of the service's shards
\* is in the installed assignment exactly when its service-port-name is
\* the name the cluster's port number resolved to and its labels carry
\* every label of the subset's selector (no selector matches all); each
\* such shard entry is placed once, and nothing else is placed.
C9_IncrementalSelection ==
    IncInstalled =>
        /\ \A addr \in IncAddresses : C9_Placed(addr) = C9_Reported(addr)
        /\ \A g \in 1..Len(IncAssignment) : \A j \in 1..Len(IncAssignment[g].LbEndpoints) :
              IncAssignment[g].LbEndpoints[j].Address \in IncAddresses

\* A subset build that kept an endpoint and dropped one for its version
\* label and one for its port name.
C9_Witness ==
    /\ IncInstalled
    /\ loc[1].name = "outbound|80|v2|svc1"
    /\ C9_Placed(V2Az1.Address) = 2
    /\ \E x \in DOMAIN loc[1].seen : \E i \in 1..Len(loc[1].seen[x]) : loc[1].seen[x][i] = V1Az1
    /\ \E x \in DOMAIN loc[1].seen : \E i \in 1..Len(loc[1].seen[x]) : loc[1].seen[x][i] = V2Grpc
    /\ C9_Placed(V1Az1.Address) = 0
    /\ C9_Placed(V2Grpc.Address) = 0

\* ---------------------------------------------------------------- C10
\* C10: under any interleaving of builds and per-connection pushes on one
\* cluster, a reader that has obtained the entry's assignment (a push
\* after loadAssignment returned a non-nil pointer) sees exactly the
\* endpoints a single completed build installed in that object, never a
\* value modified after it was installed.  (Stated as claimed; the
\* model refutes it.)
C10_ReaderSeesInstalledAssignment ==
    \A t \in Threads :
        pc[t] = "push_filter" => claEndpoints[loc[t].l] = claInstalled[loc[t].l]

\* ---------------------------------------------------------------- C11
\* A step of goroutine t inside a build before its lock: the fallback of
\* updateClusterInc, the query of updateCluster or its error return.
BuildStepBeforeLock(t) == pc[t] \in {"inc_compute", "full_query"} /\ pc'[t] # pc[t]
\* The step in which updateCluster returns the error of InstancesByPort.
BuildFails(t) == pc[t] = "full_query" /\ pc'[t] \notin {"full_query", "bld_lock"}

\* C11: a build whose registry query fails leaves the entry's stored
\* assignment and NonEmptyTime exactly as they were (a build changes them
\* only in its install step, which a failed build never reaches), and the
\* error reaches the caller: a push skips the cluster without appending a
\* resource, edsIncremental goes on to the next cluster.
C11_FailedBuildKeepsAssignment ==
    [][\A t \in Threads :
          /\ BuildStepBeforeLock(t) =>
                UNCHANGED <<LoadAssignment, NonEmptyTime, claEndpoints, claInstalled>>
          /\ BuildFails(t) =>
                IF loc[t].ret = "push"
                THEN /\ pc'[t] = "push_next"
                     /\ loc'[t].i = loc[t].i + 1
                     /\ loc'[t].res = loc[t].res
                ELSE /\ pc'[t] = "inc_next"
                     /\ loc'[t].cMap = loc[t].cMap]_vars

\* A build of edsIncremental has failed on an entry that holds a
\* non-empty assignment from an earlier build.
C11_Witness ==
    \E t \in Threads :
        /\ pc[t] = "inc_next"
        /\ loc[t].name # ""
        /\ loc[t].path = ""
        /\ LoadAssignment[loc[t].c] # NIL
        /\ NonEmptyTime[loc[t].c]

\* ---------------------------------------------------------------- C12
\* The assignment is one the merge loop computes for the cluster from the
\* shard store as it is now (for some range order of the maps).
ComputedFromStore(assignment, clusterName) ==
    LET k == ParseSubsetKey(clusterName)
        labels == SubsetToLabels(k.subsetName, k.hostname)
        svcPort == GetByPort(ServicePort2Name[k.hostname], k.port)
        shards == EndpointShardsByService[k.hostname].Shards
    IN \E order \in RangeOrders(DOMAIN shards) :
         \E zoneOrder \in RangeOrders(LocalityKeys(SelectedEntries(shards, order, svcPort, labels))) :
            assignment = WeightedLocEps(SelectedEntries(shards, order, svcPort, labels), zoneOrder)

\* Goroutine t has finished an incremental build that read the shards of
\* the service as they are now, and no build is running.
BuiltFromLatest(t) ==
    /\ pc[t] = "inc_next"
    /\ loc[t].path = "inc"
    /\ Found(ParseSubsetKey(loc[t].name).hostname)
    /\ loc[t].seen = EndpointShardsByService[ParseSubsetKey(loc[t].name).hostname].Shards
    /\ \A u \in Threads : pc[u] \in {"idle", "inc_next", "inc_start", "inc_reglock", "inc_snapshot"}

\* C12: once all concurrently running builds of a cluster have finished,
\* one of them having read the latest shard contents, the assignment the
\* entry holds is the one computed from the latest contents, not the one
\* of an older snapshot whose build committed last.  (Stated as claimed;
\* the model refutes it.)
C12_LastCommitReflectsLatestShards ==
    \A t \in Threads :
        BuiltFromLatest(t) =>
            ComputedFromStore(claEndpoints[LoadAssignment[loc[t].c]], loc[t].name)

\* ---------------------------------------------------------------- C13
WorkloadKnown == wl.id \in DOMAIN wl.before
PushRequested == configUpdate # << >>

\* C13: after WorkloadUpdate(id, labels, annotations): with labels nil the
\* workload is gone and no push was requested; for an unknown id the
\* workload is recorded with the given labels and annotations and no push
\* was requested; for a known id with the stored labels nothing changed
\* and no push was requested; for a known id with other labels the stored
\* labels are the new ones, nothing else changed, and exactly one full
\* push was requested.
C13_WorkloadUpdateCases ==
    wl.op = "workload" =>
        /\ \A id \in WorkloadIds \ {wl.id} :
              /\ id \in DOMAIN WorkloadsByID <=> id \in DOMAIN wl.before
              /\ id \in DOMAIN WorkloadsByID => WorkloadsByID[id] = wl.before[id]
        /\ IF wl.labels.isNil
           THEN wl.id \notin DOMAIN WorkloadsByID /\ ~PushRequested
           ELSE /\ wl.id \in DOMAIN WorkloadsByID
                /\ WorkloadsByID[wl.id].Labels = wl.labels.m
                /\ IF ~WorkloadKnown
                   THEN WorkloadsByID[wl.id].Annotations = wl.annotations /\ ~PushRequested
                   ELSE /\ WorkloadsByID[wl.id].Annotations = wl.before[wl.id].Annotations
                        /\ IF wl.before[wl.id].Labels = wl.labels.m
                           THEN ~PushRequested
                           ELSE configUpdate = << TRUE >>

\* A known workload got other labels, with another workload recorded.
C13_Witness ==
    /\ wl.op = "workload"
    /\ ~wl.labels.isNil
    /\ WorkloadKnown
    /\ wl.before[wl.id].Labels # wl.labels.m
    /\ configUpdate = << TRUE >>
    /\ DOMAIN WorkloadsByID = WorkloadIds

\* ---------------------------------------------------------------- C14
\* The positions of the watch list of goroutine t's connection whose
\* cluster the push includes: it passes the update filter, has an entry in
\* the registry, and its full-path build, if one ran, did not fail.  (The
\* registry does not change in these runs.)
C14_Included(t) ==
    LET watch == WatchedClusters(loc[t].conn)
    IN { i \in 1..Len(watch) :
           /\ ~loc[t].filter \/ ParseSubsetKey(watch[i]).hostname \in loc[t].upd
           /\ edsClusters[watch[i]] # NIL
           /\ i \notin loc[t].failed }

\* The names of the included clusters, in watch order.
C14_IncludedNames(t) ==
    LET watch == WatchedClusters(loc[t].conn)
        F[i \in 0..Len(watch)] ==
            IF i = 0 THEN << >>
            ELSE IF i \in C14_Included(t) THEN Append(F[i - 1], watch[i]) ELSE F[i - 1]
    IN F[Len(watch)]

C14_ResponseNames(t) == [k \in 1..Len(Sent(t).Resources) |-> Sent(t).Resources[k].ClusterName]

C14_Pushing(t) ==
    pc[t] \in {"push_next", "push_rlock", "push_get", "push_load_lock", "push_load",
               "push_reload_lock", "push_reload", "push_filter", "push_write",
               "push_marshal", "push_sent"}
    \/ (pc[t] \in {"full_query", "bld_lock", "bld_install"} /\ loc[t].ret = "push")

RepeatedUpdate == ev'.op = "EDSUpdate" /\ ev'.repeat /\ sweep' = sweep

\* C15: the second of two UpdateShard (EDSUpdate) calls in a row with the
\* same shard, service and endpoint list leaves the shard store as the
\* first call left it: all shards of all services and their
\* service-account sets; the store and the push context being all a build
\* reads, an assignment built afterwards is the one built after the first.
C15_RepeatedUpdateIsNoOp ==
    [][RepeatedUpdate =>
          /\ EndpointShardsByService' = EndpointShardsByService
          /\ ServicePort2Name' = ServicePort2Name]_vars

\* The same non-empty endpoint list has been reported twice in a row for
\* a shard, next to another shard of the service.
C15_Witness ==
    /\ ev.op = "EDSUpdate"
    /\ ev.repeat
    /\ ev.entries # << >>
    /\ Cardinality(DOMAIN EndpointShardsByService[ev.svc].Shards) = 2

\* ---------------------------------------------------------------- C20
\* The shards of a service before and after a step (none for a service the
\* store has no record of).
ShardsBefore(k) == IF k \in DOMAIN EndpointShardsByService
                   THEN EndpointShardsByService[k].Shards ELSE << >>
ShardsAfter(k) == IF k \in DOMAIN EndpointShardsByService'
                  THEN EndpointShardsByService'[k].Shards ELSE << >>

\* C20: after a shard update (EDSUpdate, or the edsUpdate of a sweep) the
\* shard stored under the service and shard id of the call is the list of
\* the call, in its order; every other shard of that service and every
\* shard of every other service is the one stored before, and no shard or
\* service is added or removed besides the one of the call.
C20_UpdateReplacesOneShard ==
    [][ev'.op \in {"EDSUpdate", "internal"} =>
          /\ DOMAIN EndpointShardsByService' = DOMAIN EndpointShardsByService \cup {ev'.svc}
          /\ DOMAIN ShardsAfter(ev'.svc) = DOMAIN ShardsBefore(ev'.svc) \cup {ev'.shard}
          /\ ShardsAfter(ev'.svc)[ev'.shard] = ev'.entries
          /\ \A x \in DOMAIN ShardsBefore(ev'.svc) \ {ev'.shard} :
                ShardsAfter(ev'.svc)[x] = ShardsBefore(ev'.svc)[x]
          /\ \A k \in DOMAIN EndpointShardsByService \ {ev'.svc} :
                ShardsAfter(k) = ShardsBefore(k)]_vars

\* A list of two endpoints has been stored for a service that was there
\* (the call before it was for another shard or list), next to a non-empty
\* shard of the same service and a non-empty shard of another service.
C20_Witness ==
    /\ ev.op = "EDSUpdate"
    /\ ev.found
    /\ ~ev.repeat
    /\ Len(ev.entries) = 2
    /\ \E x \in DOMAIN ShardsBefore(ev.svc) \ {ev.shard} : ShardsBefore(ev.svc)[x] # << >>
    /\ \E k \in DOMAIN EndpointShardsByService \ {ev.svc} :
          \E x \in DOMAIN ShardsBefore(k) : ShardsBefore(k)[x] # << >>

\* ---------------------------------------------------------------- C18
\* The three cases of the claim, for the cluster goroutine t builds.
NoPortMapping(t) == ParseSubsetKey(loc[t].name).hostname \notin DOMAIN ServicePort2Name
NoPortName(t) ==
    LET k == ParseSubsetKey(loc[t].name)
    IN /\ ~NoPortMapping(t)
       /\ \A i \in 1..Len(ServicePort2Name[k.hostname]) :
             ServicePort2Name[k.hostname][i].Port # k.port
NoShardRecord(t) == ParseSubsetKey(loc[t].name).hostname \notin DOMAIN EndpointShardsByService
MustDelegate(t) == NoPortMapping(t) \/ NoPortName(t) \/ NoShardRecord(t)

\* C18: updateClusterInc goes on into updateCluster (whose next step is the
\* InstancesByPort query) exactly when the push context has no port list
\* for the hostname of the cluster, or that list has no port of the
\* cluster's number, or the shard store has no record of the hostname; in
\* every other case it goes to the install with groups merged from the
\* shards, and a build called by edsIncremental reaches the registry query
\* from nowhere else.
C18_DelegatesIffNoPortOrNoShards ==
    [][\A t \in Threads :
          /\ (pc[t] = "inc_compute" /\ pc'[t] # "inc_compute") =>
                IF MustDelegate(t)
                THEN pc'[t] = "full_query" /\ loc'[t] = loc[t]
                ELSE /\ pc'[t] = "bld_lock"
                     /\ loc'[t].path = "inc"
                     /\ loc'[t].seen = EndpointShardsByService[ParseSubsetKey(loc[t].name).hostname].Shards
          /\ (pc'[t] = "full_query" /\ pc[t] # "full_query" /\ loc'[t].ret = "inc") =>
                pc[t] = "inc_compute" /\ MustDelegate(t)]_vars

\* The builder has delegated for a cluster whose hostname has a port list
\* and a shard record, the list having no port 80; the query has answered.
C18_Witness ==
    /\ pc[1] = "bld_lock"
    /\ loc[1].ret = "inc"
    /\ loc[1].path = "full"
    /\ loc[1].locEps # << >>
    /\ NoPortName(1)
    /\ ~NoShardRecord(1)

\* ---------------------------------------------------------------- C19
\* The endpoints the build of goroutine t has selected, as positions: on
\* the incremental path the entries of the shards it read that carry the
\* port name and the labels of the subset, on the full path the instances
\* of the answer that convert to a wire endpoint.
SelectedPositions(t) ==
    LET k == ParseSubsetKey(loc[t].name)
        labels == SubsetToLabels(k.subsetName, k.hostname)
    IN IF loc[t].path = "inc"
       THEN { p \in UNION { {x} \X (1..Len(loc[t].seen[x])) : x \in DOMAIN loc[t].seen } :
                /\ loc[t].seen[p[1]][p[2]].ServicePortName = loc[t].svcPort.Name
                /\ HasSubsetOf(labels, loc[t].seen[p[1]][p[2]].Labels) }
       ELSE { p \in {""} \X (1..Len(loc[t].instances)) : loc[t].instances[p[2]].Address # "" }
SelectedAt(t, p) == IF loc[t].path = "inc" THEN loc[t].seen[p[1]][p[2]] ELSE loc[t].instances[p[2]]
ZoneOf(el) == IF "zone" \in DOMAIN el.Labels THEN el.Labels["zone"] ELSE ""
SelectedInZone(t, zone) == { p \in SelectedPositions(t) : ZoneOf(SelectedAt(t, p)) = zone }
SelectedZones(t) == { ZoneOf(SelectedAt(t, p)) : p \in SelectedPositions(t) }

\* The number of endpoints in the first n groups.
RECURSIVE EndpointCount(_, _)
EndpointCount(groups, n) ==
    IF n = 0 THEN 0 ELSE EndpointCount(groups, n - 1) + Len(groups[n].LbEndpoints)
RECURSIVE WeightSum(_, _)
WeightSum(groups, n) ==
    IF n = 0 THEN Zero ELSE Plus(WeightSum(groups, n - 1), groups[n].LoadBalancingWeight)

\* The groups are the zones of the selection of goroutine t.
GroupedByZone(t, groups) ==
    /\ \A zone \in SelectedZones(t) :
          Cardinality({ i \in DOMAIN groups : groups[i].Zone = zone }) = 1
    /\ \A i \in DOMAIN groups :
          /\ groups[i].Zone \in SelectedZones(t)
          /\ groups[i].LbEndpoints # << >>
          /\ Len(groups[i].LbEndpoints) = Cardinality(SelectedInZone(t, groups[i].Zone))
          /\ groups[i].LoadBalancingWeight = Num(0, Len(groups[i].LbEndpoints))
    /\ \A p \in SelectedPositions(t) :
          \E i \in DOMAIN groups :
             /\ groups[i].Zone = ZoneOf(SelectedAt(t, p))
             /\ \E j \in DOMAIN groups[i].LbEndpoints :
                   groups[i].LbEndpoints[j].Address = SelectedAt(t, p).Address
    /\ EndpointCount(groups, Len(groups)) = Cardinality(SelectedPositions(t))
    /\ WeightSum(groups, Len(groups)) = Num(0, Cardinality(SelectedPositions(t)))

\* C19: the assignment a build installs (from the shards or from the
\* registry answer) has one group for each zone of the endpoints the build
\* selected and no other group, the endpoints without a zone being the
\* group of zone ""; each selected endpoint is in the group of its zone,
\* no group is empty, the weight of a group is its number of endpoints and
\* the weights add up to the number of selected endpoints.
C19_InstalledGroupsAreZones ==
    [][\A t \in Threads :
          (pc[t] = "bld_install" /\ pc'[t] # "bld_install") =>
              /\ LoadAssignment'[loc[t].c] # NIL
              /\ GroupedByZone(t, claInstalled'[LoadAssignment'[loc[t].c]])]_vars

\* An assignment has been installed from the shards, for a selection of
\* at least three endpoints in two zones.
C19_Witness ==
    /\ pc[1] = "inc_next"
    /\ loc[1].path = "inc"
    /\ Cardinality(SelectedPositions(1)) >= 3
    /\ Cardinality(SelectedZones(1)) = 2
    /\ Len(claInstalled[loc[1].c]) = 2

\* ---------------------------------------------------------------- C16
\* The hostname a cluster name decodes to.
HostnameOf(clusterName) ==
    CASE clusterName \in {"outbound|80||svc1", "outbound|80|v2|svc1"} -> "svc1"
      [] clusterName = "outbound|80||svc2" -> "svc2"
\* The clusters the registry holds now whose hostname is one of upd.
AffectedNow(upd) == { k \in DOMAIN edsClusters : edsClusters[k] # NIL /\ HostnameOf(k) \in upd }
\* Goroutine t is in the recomputation phase of edsIncremental.
Recomputing(t) ==
    \/ pc[t] \in {"inc_reglock", "inc_snapshot", "inc_next", "inc_compute"}
    \/ pc[t] \in {"full_query", "bld_lock", "bld_install"} /\ loc[t].ret = "inc"
\* The entries of the snapshot of goroutine t.
SnapshotEntries(t) == { e \in EntryIds : entryName[e] \in loc[t].snap }

\* C16: the snapshot edsIncremental takes under the registry lock holds
\* the clusters registered at that moment whose hostname is in the updated
\* set, with their entries; the builder is called once for each cluster of
\* the snapshot and for no other, all of them before the loop ends; and
\* while the goroutine recomputes, the assignment stored in any entry
\* outside the snapshot stays as it is.
C16_RecomputesExactlyAffected ==
    [][\A t \in Threads :
          /\ (pc[t] = "inc_snapshot" /\ pc'[t] # "inc_snapshot") =>
                /\ loc'[t].snap = AffectedNow(loc[t].upd)
                /\ DOMAIN loc'[t].cMap = AffectedNow(loc[t].upd)
                /\ \A k \in AffectedNow(loc[t].upd) : loc'[t].cMap[k] = edsClusters[k]
                /\ loc'[t].ran = {}
          /\ (pc[t] # "inc_compute" /\ pc'[t] = "inc_compute") =>
                /\ loc'[t].name \in loc[t].snap \ loc[t].ran
                /\ loc'[t].c \in SnapshotEntries(t)
                /\ entryName[loc'[t].c] = loc'[t].name
          /\ (pc[t] # "inc_start" /\ pc'[t] = "inc_start") => loc'[t].ran = loc'[t].snap
          /\ Recomputing(t) =>
                \A e \in EntryIds \ SnapshotEntries(t) :
                    /\ LoadAssignment'[e] = LoadAssignment[e]
                    /\ claEndpoints'[e] = claEndpoints[e]
                    /\ NonEmptyTime'[e] = NonEmptyTime[e]]_vars

\* The loop has ended for the updated service svc1 with one cluster in the
\* snapshot (the other cluster of svc1 had left the registry), built, while
\* the entries of the cluster that left and of the cluster of svc2 hold
\* assignments of earlier builds.
C16_Witness ==
    /\ pc[1] = "inc_start"
    /\ loc[1].upd = {"svc1"}
    /\ loc[1].snap = {"outbound|80||svc1"}
    /\ loc[1].ran = loc[1].snap
    /\ LoadAssignment[2] # NIL
    /\ LoadAssignment[3] # NIL /\ claInstalled[3] # << >>

\* ---------------------------------------------------------------- C17
\* Goroutine t runs the per-connection push edsIncremental started.
PushOfIncremental(t) == loc[t].inc
\* A build called by edsIncremental returns an error in this step.
IncBuildFails(t) ==
    pc[t] = "full_query" /\ loc[t].ret = "inc" /\ pc'[t] \notin {"full_query", "bld_lock"}

\* The per-connection push starts after the builder has returned for every
\* cluster of the snapshot.
C17_PushesAfterAllBuilds ==
    \A t \in Threads : PushOfIncremental(t) => loc[t].ran = loc[t].snap
\* The response of that push holds, for no cluster of the snapshot, the
\* assignment the entry held before this push recomputed.
C17_NothingOlderSent ==
    \A t \in Threads : (PushOfIncremental(t) /\ pc[t] = "push_sent") => loc[t].old = {}
\* A failed build goes on with the clusters left in the snapshot.
C17_FailureGoesOn ==
    \A t \in Threads :
        IncBuildFails(t) => pc'[t] = "inc_next" /\ loc'[t].cMap = loc[t].cMap

\* C17: in one incremental push the per-connection pushes start only
\* after the builder has run for every affected cluster of the snapshot,
\* so that the response of such a push carries, for an affected cluster,
\* no assignment from before the recomputation; a failed build stops
\* neither the builds of the other clusters nor the start of the pushes.
\* (Stated as claimed; the model refutes it.)
C17_PushAfterRecomputation ==
    /\ [](C17_PushesAfterAllBuilds /\ C17_NothingOlderSent)
    /\ [][C17_FailureGoesOn]_vars

\* ---------------------------------------------------------------- C21
\* The step in which updateServiceShards stores the service accounts and
\* returns nil.
SweepSucceeds == sweep.pc = "accounts" /\ sweep'.pc = "idle"

\* C21: when a sweep returns nil, the service-account set of every service
\* of the push context is the set of non-empty service accounts of the
\* instances returned for it during the sweep, the empty set for a
\* service whose instances carried none.  (Stated as claimed; the model
\* refutes it.)
C21_SweepSetsServiceAccounts ==
    [][SweepSucceeds =>
          \A i \in 1..Len(PushServices) :
              /\ PushServices[i].Hostname \in DOMAIN EndpointShardsByService'
              /\ EndpointShardsByService'[PushServices[i].Hostname].ServiceAccounts
                    = sweep.returned[PushServices[i].Hostname]]_vars

\* The same, for the services some returned instance of which carried a
\* service account.
SweepSetsAccountsSeen ==
    [][SweepSucceeds =>
          \A i \in 1..Len(PushServices) :
              sweep.returned[PushServices[i].Hostname] # {} =>
                  EndpointShardsByService'[PushServices[i].Hostname].ServiceAccounts
                      = sweep.returned[PushServices[i].Hostname]]_vars

\* ---------------------------------------------------------------- C22
\* The name -> port pairs of a port list, and of the ports argument.
PairsOfList(pl) == { << pl[i].Name, pl[i].Port >> : i \in 1..Len(pl) }
PairsGiven(ports) == { << k, ports[k] >> : k \in DOMAIN ports }

\* C22: after SvcUpdate(cluster, hostname, ports, rports) with the empty
\* cluster id the port list of hostname holds the given name -> port
\* pairs, each once and no other, and the list of every other hostname is
\* the one it was; after a call with any other cluster id the mapping of
\* every hostname is the one it was.
C22_SvcUpdateOnlyPrimary ==
    svcCall.op = "SvcUpdate" =>
        IF svcCall.cluster = ""
        THEN /\ DOMAIN ServicePort2Name = DOMAIN svcCall.before \cup {svcCall.hostname}
             /\ PairsOfList(ServicePort2Name[svcCall.hostname]) = PairsGiven(svcCall.ports)
             /\ Len(ServicePort2Name[svcCall.hostname]) = Cardinality(DOMAIN svcCall.ports)
             /\ \A k \in DOMAIN svcCall.before \ {svcCall.hostname} :
                   ServicePort2Name[k] = svcCall.before[k]
        ELSE ServicePort2Name = svcCall.before

\* A second cluster has reported other ports for a hostname the primary
\* cluster had reported two ports for, next to another hostname.
C22_Witness ==
    /\ svcCall.op = "SvcUpdate"
    /\ svcCall.cluster # ""
    /\ svcCall.hostname \in DOMAIN svcCall.before
    /\ Len(svcCall.before[svcCall.hostname]) = 2
    /\ PairsOfList(svcCall.before[svcCall.hostname]) # PairsGiven(svcCall.ports)
    /\ Cardinality(DOMAIN ServicePort2Name) = 2

\* ---------------------------------------------------------------- C23
\* C23: whatever the interleaving of the connectionID calls, no two calls
\* that have returned have the same numeric suffix, and the suffix of a
\* call is larger than every suffix that had been returned when it
\* started.
C23_SuffixesUniqueAndOrdered ==
    /\ \A i, j \in DOMAIN cids : i # j => cids[i].id # cids[j].id
    /\ \A i \in DOMAIN cids : cids[i].id > cids[i].floor

\* Two overlapping calls have returned in the order opposite to their
\* suffixes, and a call started after both has returned.
C23_Witness ==
    /\ Len(cids) >= 3
    /\ cids[1].id > cids[2].id
    /\ cids[3].floor = cids[1].id

\* ---------------------------------------------------------------- C24
\* A step of pushEds in goroutine t on its own frame (the build of a fresh
\* cluster it may call has labels of its own).
PushStep(t) ==
    /\ pc[t] \in {"push_next", "push_rlock", "push_get", "push_load_lock", "push_load",
                  "push_reload_lock", "push_reload", "push_filter", "push_write",
                  "push_marshal", "push_sent"}
    /\ pc'[t] # pc[t]
\* The assignment entry e holds, as the entry's readers see it.
StoredAssignment(e) == claEndpoints[LoadAssignment[e]]

\* C24: a step of a per-connection push leaves every stored non-nil
\* assignment as it was: the entry points to the same object and the
\* groups of that object, weights included, are unchanged, with or
\* without endpoint filters.  (Stated as claimed; the model refutes it.)
C24_PushLeavesStoredAssignment ==
    [][\A t \in Threads : PushStep(t) =>
          \A e \in EntryIds : LoadAssignment[e] # NIL =>
              /\ LoadAssignment'[e] = LoadAssignment[e]
              /\ StoredAssignment(e)' = StoredAssignment(e)]_vars

\* The part of C24 the code keeps: with endpoint filters registered every
\* stored assignment carries the weights its build installed.
C24_FilteredPushKeepsInstalled ==
    hasFilters => \A e \in EntryIds :
                      LoadAssignment[e] # NIL => StoredAssignment(e) = claInstalled[LoadAssignment[e]]

\* ---------------------------------------------------------------- C25
\* The labels at which a goroutine waits for an entry mutex.
EntryLockWaits == {"add_lock", "rm_lock", "bld_lock", "push_load_lock", "push_reload_lock"}
\* No goroutine that waits for an entry mutex holds the registry mutex,
\* as writer or as reader.
NoEntryWaitUnderRegistry ==
    \A t \in Threads :
        pc[t] \in EntryLockWaits =>
            edsClusterMutex.writer # t /\ t \notin edsClusterMutex.readers

\* C25: addEdsCon, removeEdsCon (with getEdsCluster and
\* getOrAddEdsCluster), edsIncremental, the builds and pushEds never
\* deadlock on the registry mutex and the entry mutexes: no goroutine
\* waits for an entry mutex while holding the registry mutex, and under
\* fair scheduling every call in progress returns (so every lock it
\* requested was acquired).
C25_NoDeadlock ==
    /\ []NoEntryWaitUnderRegistry
    /\ \A t \in Threads : (pc[t] # "idle") ~> (pc[t] = "idle")

\* removeEdsCon holds the entry mutex of the cluster its last client
\* left and is about to request the registry lock, while a build of
\* edsIncremental waits for that entry mutex.
C25_Witness ==
    /\ pc[1] = "rm_reglock"
    /\ mutex[loc[1].c] = 1
    /\ pc[2] = "bld_lock"
    /\ loc[2].c = loc[1].c

\* ----------------------------------------------------------------- C1
\* C1: whenever no addEdsCon / removeEdsCon call is in progress, every
\* EdsCluster holding at least one client is the entry the registry stores
\* under its name.  (Stated as claimed; the interleavings of SpecReg refute it.)
C1_SubscribedEntryIsRegistered ==
    AllIdle =>
        \A e \in Allocated : NumClients(e) > 0 => getEdsCluster(entryName[e]) = e

\* ----------------------------------------------------------------- C2
\* The entry and the handle a sequential RemoveClient call found on entry.
LastEntry == last.reg[last.name]
LastStored == IF LastEntry = NIL THEN NilConn ELSE last.clients[LastEntry][last.node]
RemoveReturned == pc[1] = "idle" /\ last.op = "remove"

\* C2: a RemoveClient(name, node, conn) that has returned deleted
\* clients[node] exactly when the stored handle was conn; when the stored
\* handle was another connection, or there was none, the client maps and
\* the registry are what they were when the call started.
C2_RemoveOnlyIdenticalHandle ==
    RemoveReturned =>
        IF LastStored = last.conn
        THEN EdsClients = [last.clients EXCEPT ![LastEntry][last.node] = NilConn]
        ELSE EdsClients = last.clients /\ edsClusters = last.reg

\* C2 witness: a stale handle was given after a reconnect replaced it, and
\* the newer connection is still the stored one.
C2_Witness ==
    /\ RemoveReturned
    /\ LastStored \notin {NilConn, last.conn}
    /\ getEdsCluster(last.name) = LastEntry
    /\ EdsClients[LastEntry][last.node] = LastStored

\* ----------------------------------------------------------------- C3
\* C3: calls running one at a time; after a RemoveClient on a registered
\* cluster, Get(name) is nil when no client remains in the entry and is
\* the same entry while at least one client remains.
C3_LastSubscriberLeaves ==
    (RemoveReturned /\ LastEntry # NIL) =>
        IF NumClients(LastEntry) = 0
        THEN getEdsCluster(last.name) = NIL
        ELSE getEdsCluster(last.name) = LastEntry

\* C3 witness: the removal of the only remaining client has returned and
\* the registry no longer has the entry.
C3_Witness ==
    /\ RemoveReturned
    /\ LastEntry # NIL
    /\ Cardinality({n \in Nodes : last.clients[LastEntry][n] # NilConn}) = 1
    /\ LastStored = last.conn
    /\ NumClients(LastEntry) = 0
    /\ getEdsCluster(last.name) = NIL

====
